---- MODULE Spec2Model ----
(***************************************************************************)
(* A model of the playground server: the request dispatcher                *)
(* (Handler.ServePlayground), the per-session section sequencer             *)
(* (Handler.handleHTML, SessionManager), the live-stream engine             *)
(* (Handler.handleSSE) and the signal bridge (publishSignals,               *)
(* mergeNATSSignals).                                                       *)
(*                                                                         *)
(* Strings that the code only compares are TLA+ strings; a URL path is a    *)
(* sequence of characters so that its normalisation is computed; a Go map   *)
(* is a function whose DOMAIN is the set of keys present; a JSON value is   *)
(* the string of its JSON text ("1", "'t1'" for the JSON string t1).        *)
(***************************************************************************)
EXTENDS Integers, Sequences, FiniteSets, TLC

VARIABLES
    disk,       \* the playground directory, as its scan would read it
    cookie,     \* cookie[c]: the session values held in client c's cookie
    counters,   \* Counters: globalHits and the urlHits map
    conn,       \* conn[id]: the live connection id (locals of handleSSE)
    last,       \* the outcome of the last request served
    served,     \* served[c][key]: the section indices selected for client c
                \* under sequence key key, request after request
    nreq,       \* number of requests served so far
    edits,      \* number of edits of the playground directory so far
    calc,       \* a call of one of the pure functions: its name, its
                \* arguments and its result
    hits        \* Counters at the grain of its memory operations: the
                \* lock, the map of counter addresses, the counters in
                \* memory, and the calls of Hit in progress

vars == <<disk, cookie, counters, conn, last, served, nreq, edits, calc, hits>>

----------------------------------------------------------------------------
(* Bounds of the model *)

MaxReqs == 5
MaxEmit == 6
MaxQueue == 2
MaxEdits == 1

----------------------------------------------------------------------------
(* Go maps *)

EmptyMap == <<>>

MapGet(m, k) == IF k \in DOMAIN m THEN m[k] ELSE 0

MapPut(m, k, v) == [x \in (DOMAIN m) \cup {k} |-> IF x = k THEN v ELSE m[x]]

Min(a, b) == IF a < b THEN a ELSE b

----------------------------------------------------------------------------
(* Templates and files *)

\* A template body that fails to parse or to execute.
BadTemplate == "{{bad"

Frontmatter(loop, interval, count, status, delay) ==
    [Loop |-> loop, Interval |-> interval, Count |-> count,
     Status |-> status, Delay |-> delay]

ParsedFile(fm, sections) == [Frontmatter |-> fm, Sections |-> sections]

\* sectionEntry: one section with its file's frontmatter and file index
\* (0-based, as in the code).
RECURSIVE collectFrom(_, _)
collectFrom(files, i) ==
    IF i > Len(files) THEN <<>>
    ELSE [k \in 1..Len(files[i].Sections) |->
            [content |-> files[i].Sections[k],
             frontmatter |-> files[i].Frontmatter,
             fileIndex |-> i - 1]]
         \o collectFrom(files, i + 1)

collectSections(files) == collectFrom(files, 1)

\* A section list is indexed from 0 in the code: At(s, i) is s[i].
At(s, i) == s[i + 1]

\* A template body that parses, and whose execution fails when the signal
\* "c" is set (as a body that calls sprig's fail under that condition).
FailOnSignal == "{{fail-on-c}}"

\* A render that never fails.
renderTemplateLenient(content, td) ==
    [err |-> FALSE, out |-> [body |-> content, td |-> td]]

renderTemplate(content, td) ==
    IF content = BadTemplate
       \/ (content = FailOnSignal /\ "c" \in DOMAIN td.Signals)
    THEN [err |-> TRUE, out |-> [body |-> "", td |-> td]]
    ELSE [err |-> FALSE, out |-> [body |-> content, td |-> td]]

----------------------------------------------------------------------------
(* Route files and method fallback *)

ToUpper(s) ==
    CASE s = "get" -> "GET"
      [] s = "post" -> "POST"
      [] OTHER -> s

\* A lookup that prefers the any-method list.
LookupHTMLAnyFirst(rf, method) ==
    IF "" \in DOMAIN rf.HTMLFiles /\ Len(rf.HTMLFiles[""]) > 0
    THEN rf.HTMLFiles[""]
    ELSE IF ToUpper(method) \in DOMAIN rf.HTMLFiles
         THEN rf.HTMLFiles[ToUpper(method)]
         ELSE <<>>

LookupHTML(rf, method) ==
    IF ToUpper(method) \in DOMAIN rf.HTMLFiles
       /\ Len(rf.HTMLFiles[ToUpper(method)]) > 0
    THEN rf.HTMLFiles[ToUpper(method)]
    ELSE IF "" \in DOMAIN rf.HTMLFiles THEN rf.HTMLFiles[""] ELSE <<>>

\* A lookup without the any-method fallback.
LookupSSENoFallback(rf, method) ==
    IF ToUpper(method) \in DOMAIN rf.SSEFiles
    THEN rf.SSEFiles[ToUpper(method)]
    ELSE <<>>

LookupSSE(rf, method) ==
    IF ToUpper(method) \in DOMAIN rf.SSEFiles
       /\ Len(rf.SSEFiles[ToUpper(method)]) > 0
    THEN rf.SSEFiles[ToUpper(method)]
    ELSE IF "" \in DOMAIN rf.SSEFiles THEN rf.SSEFiles[""] ELSE <<>>

\* A scan that leaves out the files it cannot read or parse.
ScanPlaygroundsPartial(d) == [err |-> FALSE, routes |-> d.routes]

\* A scan that also returns a route, without files, for a directory that
\* does not exist.
ScanPlaygroundsPhantom(d) ==
    [err |-> d.broken,
     routes |-> IF d.broken THEN <<>>
                ELSE d.routes @@
                     (<<"/", "z", "/">> :> [HTMLFiles |-> <<>>, SSEFiles |-> <<>>])]

\* The scan of the directory: an error of any file aborts it, and no
\* route is returned.
ScanPlaygrounds(d) ==
    [err |-> d.broken, routes |-> IF d.broken THEN EmptyMap ELSE d.routes]

NormalizePath(p) ==
    LET p1 == IF p = <<>> THEN <<"/">> ELSE p
    IN IF p1 # <<"/">> /\ p1[Len(p1)] # "/" THEN Append(p1, "/") ELSE p1

----------------------------------------------------------------------------
(* Counters *)

Hit(c, urlPath) ==
    LET g == c.globalHits + 1
        u == MapGet(c.urlHits, urlPath) + 1
    IN [counters |-> [globalHits |-> g, urlHits |-> MapPut(c.urlHits, urlPath, u)],
        globalHits |-> g, urlHits |-> u]

GetGlobalHits(c) == c.globalHits

GetURLHits(c, urlPath) == MapGet(c.urlHits, urlPath)

----------------------------------------------------------------------------
(* Session manager.  A session is the record of its values; the cookie of  *)
(* a client holds the values last saved.                                   *)

NoSession == [username |-> "", session_id |-> "", url_hits |-> EmptyMap,
              seq_pos |-> EmptyMap]

\* "s-" + RandomUsername()
SessionIDOf(name) == "s-" \o name

GetOrCreate(values, rndUser, rndSid) ==
    [username |-> IF values.username # "" THEN values.username ELSE rndUser,
     session_id |-> IF values.session_id # "" THEN values.session_id
                    ELSE SessionIDOf(rndSid),
     url_hits |-> values.url_hits,
     seq_pos |-> values.seq_pos]

IncrementURLHits(sd, urlPath) ==
    [sd EXCEPT !.url_hits = MapPut(@, urlPath, MapGet(@, urlPath) + 1)]

GetSeqPos(sd, key) == MapGet(sd.seq_pos, key)

\* An advance that never wraps.
AdvanceSeqPosNoWrap(sd, key, totalSteps, loop) ==
    LET pos == MapGet(sd.seq_pos, key) + 1
        next == IF pos >= totalSteps THEN totalSteps - 1 ELSE pos
    IN [sd EXCEPT !.seq_pos = MapPut(@, key, next)]

\* An advance that starts over after the last section.
AdvanceSeqPosReset(sd, key, totalSteps, loop) ==
    LET pos == MapGet(sd.seq_pos, key) + 1
        next == IF loop \/ pos >= totalSteps THEN pos % totalSteps ELSE pos
    IN [sd EXCEPT !.seq_pos = MapPut(@, key, next)]

\* An advance from the position that was served: the stored position
\* brought back into the list first.
AdvanceSeqPosServed(sd, key, totalSteps, loop) ==
    LET stored == MapGet(sd.seq_pos, key)
        pos == (IF stored >= totalSteps THEN totalSteps - 1 ELSE stored) + 1
        next == IF loop THEN pos % totalSteps
                ELSE IF pos >= totalSteps THEN totalSteps - 1
                ELSE pos
    IN [sd EXCEPT !.seq_pos = MapPut(@, key, next)]

AdvanceSeqPos(sd, key, totalSteps, loop) ==
    LET pos == MapGet(sd.seq_pos, key) + 1
        next == IF loop THEN pos % totalSteps
                ELSE IF pos >= totalSteps THEN totalSteps - 1
                ELSE pos
    IN [sd EXCEPT !.seq_pos = MapPut(@, key, next)]

\* A key that leaves out the kind of the list.
SeqKeyNoKind(urlPath, kind, method) == <<urlPath, "html", method>>

\* urlPath + ":html:" + method, urlPath + ":sse:" + method
SeqKey(urlPath, kind, method) == <<urlPath, kind, method>>

----------------------------------------------------------------------------
(* Signals and the bridge *)

\* The signal keys, in the order json.Marshal writes them (sorted).
SignalKeys == <<"a", "b", "c", "tab_id">>

\* JSON texts of string values; every other value is a number.
JSONStrings == {"''", "'t1'", "'t2'"}

\* v, ok := m["tab_id"].(string); ok && v != ""
TabIDOf(signals) ==
    IF "tab_id" \in DOMAIN signals /\ signals["tab_id"] \in JSONStrings
       /\ signals["tab_id"] # "''"
    THEN signals["tab_id"]
    ELSE ""

RECURSIVE marshalFrom(_, _)
marshalFrom(m, i) ==
    IF i > Len(SignalKeys) THEN <<>>
    ELSE (IF SignalKeys[i] \in DOMAIN m
          THEN << <<SignalKeys[i], m[SignalKeys[i]]>> >>
          ELSE <<>>)
         \o marshalFrom(m, i + 1)

\* json.Marshal of a signal map: an object, its members sorted by key.
Marshal(m) == [bytes |-> "object", members |-> marshalFrom(m, 1)]

EmptyData == [bytes |-> "empty", members |-> <<>>]
GarbageData == [bytes |-> "garbage", members |-> <<>>]

RECURSIVE assignAll(_, _, _)
assignAll(signals, members, i) ==
    IF i > Len(members) THEN signals
    ELSE assignAll(MapPut(signals, members[i][1], members[i][2]), members, i + 1)

\* A merge that keeps the old value of a key that both maps hold.
mergeNATSSignalsKeepOld(data, signals) ==
    IF data.bytes = "empty" THEN signals
    ELSE IF data.bytes # "object" THEN signals
    ELSE LET in == assignAll(EmptyMap, data.members, 1)
         IN [k \in (DOMAIN signals) \cup (DOMAIN in) |->
               IF k \in DOMAIN signals THEN signals[k] ELSE in[k]]

\* The signal map of td after mergeNATSSignals(data, &td).
mergeNATSSignals(data, signals) ==
    IF data.bytes = "empty" THEN signals
    ELSE IF data.bytes # "object" THEN signals
    ELSE assignAll(signals, data.members, 1)

\* One subject for the sessions of all clients.
SessionSubjectShared(sid) == "dspen.session."

SessionSubject(sid) == "dspen.session." \o sid
TabSubject(tabID) == "dspen.tab." \o tabID

\* A publish: the subject, the bytes, and (for the properties) the map that
\* was serialised.
Publish(subject, td) ==
    [subject |-> subject, data |-> Marshal(td.Signals), src |-> td.Signals]

\* A publish to the tab subject whatever tab_id is.
publishSignalsTabAlways(td) ==
    <<Publish(SessionSubject(td.SessionID), td),
      Publish(TabSubject(TabIDOf(td.Signals)), td)>>

\* A publish to the session subject alone.
publishSignalsSessionOnly(td) == <<Publish(SessionSubject(td.SessionID), td)>>

\* The publishes publishSignals makes, in order.
publishSignals(td) ==
    <<Publish(SessionSubject(td.SessionID), td)>>
    \o (IF TabIDOf(td.Signals) # ""
        THEN <<Publish(TabSubject(TabIDOf(td.Signals)), td)>>
        ELSE <<>>)

----------------------------------------------------------------------------
(* The HTML path *)

StatusOK == 200
StatusNoContent == 204
StatusNotFound == 404
StatusInternalServerError == 500

TemplateData(globalHits, urlHits, sessionURLHits, sd, urlPath, method, signals) ==
    [GlobalHits |-> globalHits, URLHits |-> urlHits,
     SessionURLHits |-> sessionURLHits, Username |-> sd.username,
     SessionID |-> sd.session_id, URL |-> urlPath, Method |-> method,
     Signals |-> signals, SSEMessageCount |-> 0, LoopIteration |-> 0]

NoTD == TemplateData(0, 0, 0, NoSession, <<>>, "", EmptyMap)

NoBody == [body |-> "", td |-> NoTD]

\* A position beyond the list that is brought back to its first section.
ClampPosFirst(pos, n) == IF pos >= n THEN 0 ELSE pos

\* if pos >= len(allSections) { pos = len(allSections) - 1 }
ClampPos(pos, n) == IF pos >= n THEN n - 1 ELSE pos

\* A status that ignores the status option of the section.
ResponseStatusFixed(status, empty) ==
    IF empty THEN StatusNoContent ELSE StatusOK

\* The status written for a section that is empty, or that has rendered.
ResponseStatus(status, empty) ==
    IF status # 0 THEN status
    ELSE IF empty THEN StatusNoContent ELSE StatusOK

\* A handler that renders first and, when the render fails, neither
\* advances nor publishes.
handleHTMLRenderFirst(files, isDatastarRequest, sd, td, urlPath, method) ==
    LET allSections == collectSections(files)
        key == SeqKey(urlPath, "html", method)
        pos == ClampPos(GetSeqPos(sd, key), Len(allSections))
        section == At(allSections, pos)
        advance == Len(allSections) > 1
        sd1 == IF advance
               THEN AdvanceSeqPos(sd, key, Len(allSections), section.frontmatter.Loop)
               ELSE sd
        publish == isDatastarRequest /\ Cardinality(DOMAIN td.Signals) > 0
        pubs == IF publish THEN publishSignals(td) ELSE <<>>
        status == section.frontmatter.Status
        r == renderTemplate(section.content, td)
        log0 == (IF advance THEN <<"save">> ELSE <<>>)
                \o (IF publish THEN <<"publish">> ELSE <<>>)
    IN IF section.content = ""
       THEN [sd |-> sd1, pubs |-> pubs, idx |-> pos,
             status |-> ResponseStatus(status, TRUE),
             out |-> NoBody, log |-> log0 \o <<"header">>]
       ELSE IF r.err
       THEN [sd |-> sd, pubs |-> <<>>, idx |-> pos,
             status |-> StatusInternalServerError,
             out |-> NoBody, log |-> <<"header", "body">>]
       ELSE [sd |-> sd1, pubs |-> pubs, idx |-> pos,
             status |-> ResponseStatus(status, FALSE),
             out |-> r.out, log |-> log0 \o <<"header", "body">>]

\* What handleHTML does: the session data it leaves (saved when it
\* advanced), its publishes, and the response.  log is the order of its
\* effects.
handleHTML(files, isDatastarRequest, sd, td, urlPath, method) ==
    LET allSections == collectSections(files)
        key == SeqKey(urlPath, "html", method)
        stored == GetSeqPos(sd, key)
        pos == ClampPos(stored, Len(allSections))
        section == At(allSections, pos)
        advance == Len(allSections) > 1
        sd1 == IF advance
               THEN AdvanceSeqPos(sd, key, Len(allSections), section.frontmatter.Loop)
               ELSE sd
        publish == isDatastarRequest /\ Cardinality(DOMAIN td.Signals) > 0
        pubs == IF publish THEN publishSignals(td) ELSE <<>>
        status == section.frontmatter.Status
        r == renderTemplate(section.content, td)
        log0 == (IF advance THEN <<"save">> ELSE <<>>)
                \o (IF publish THEN <<"publish">> ELSE <<>>)
    IN IF section.content = ""
       THEN [sd |-> sd1, pubs |-> pubs, idx |-> pos,
             status |-> ResponseStatus(status, TRUE),
             out |-> NoBody, log |-> log0 \o <<"header">>]
       ELSE IF r.err
       THEN [sd |-> sd1, pubs |-> pubs, idx |-> pos,
             status |-> StatusInternalServerError,
             out |-> NoBody, log |-> log0 \o <<"header", "body">>]
       ELSE [sd |-> sd1, pubs |-> pubs, idx |-> pos,
             status |-> ResponseStatus(status, FALSE),
             out |-> r.out, log |-> log0 \o <<"header", "body">>]

----------------------------------------------------------------------------
(* The live-stream engine: the locals of one handleSSE call *)

DefaultDelay == 5000

fileGroupStart(sections, pos) ==
    LET fi == At(sections, pos).fileIndex
        same(s) == \A j \in s..pos : At(sections, j).fileIndex = fi
    IN CHOOSE s \in 0..pos :
          /\ same(s)
          /\ (s = 0 \/ At(sections, s - 1).fileIndex # fi)

\* A group that runs to the end of the list.
fileGroupLenRest(sections, start) ==
    IF start >= Len(sections) THEN 0 ELSE Len(sections) - start

fileGroupLen(sections, start) ==
    IF start >= Len(sections) THEN 0
    ELSE LET fi == At(sections, start).fileIndex
             run(n) == \A j \in start..(start + n - 1) :
                          At(sections, j).fileIndex = fi
         IN CHOOSE n \in 1..(Len(sections) - start) :
               /\ run(n)
               /\ (start + n = Len(sections)
                   \/ At(sections, start + n).fileIndex # fi)

NoConn ==
    [state |-> "none", client |-> "", urlPath |-> <<>>, allSections |-> <<>>,
     td |-> NoTD, pos |-> 0, loopPos |-> 0, loopIteration |-> 0, messageCount |-> 0,
     count |-> 0, groupStart |-> 0, groupLen |-> 0, groupTicks |-> 0,
     i |-> 0, delay |-> 0, interval |-> 0, subs |-> {}, natsCh |-> <<>>,
     timer |-> FALSE, cancelled |-> FALSE, cause |-> "", handled |-> 0,
     patches |-> <<>>, log |-> <<>>]

Open(k) == k.state \in {"loop", "drain", "idle"}

\* A return that leaves the subscriptions in place.
ReturnSubscribed(k, why) ==
    [k EXCEPT !.state = "closed", !.timer = FALSE,
              !.interval = 0, !.cause = why]

\* The deferred calls of handleSSE run on every return: ticker.Stop and
\* Unsubscribe of every subscription.
Return(k, why) ==
    [k EXCEPT !.state = "closed", !.subs = {}, !.timer = FALSE,
              !.interval = 0, !.cause = why]

\* A send that patches the stream with an empty section too.
sendSSESectionAll(k, pos, td, wfail) ==
    LET sections == k.allSections
        p == ClampPos(pos, Len(sections))
        section == At(sections, p)
        r == renderTemplate(section.content, td)
    IN IF r.err THEN [err |-> TRUE, k |-> k]
       ELSE IF wfail THEN [err |-> TRUE, k |-> k]
       ELSE [err |-> FALSE,
             k |-> [k EXCEPT !.patches = Append(@, [pos |-> p, out |-> r.out,
                                                    late |-> k.cancelled]),
                             !.log = Append(@, "emit")]]

\* sendSSESection(sse, sections, pos, td) on connection k.  wfail: the
\* stream refuses the write.  The result is the connection with the patch
\* handed to the stream, and whether an error is returned.  A patch is
\* marked late when the cancellation had fired before it was emitted.
sendSSESection(k, pos, td, wfail) ==
    LET sections == k.allSections
        p == ClampPos(pos, Len(sections))
        section == At(sections, p)
        r == renderTemplate(section.content, td)
    IN IF section.content = "" THEN [err |-> FALSE, k |-> k]
       ELSE IF r.err THEN [err |-> TRUE, k |-> k]
       ELSE IF wfail THEN [err |-> TRUE, k |-> k]
       ELSE [err |-> FALSE,
             k |-> [k EXCEPT !.patches = Append(@, [pos |-> p, out |-> r.out,
                                                    late |-> k.cancelled]),
                             !.log = Append(@, "emit")]]

Refresh(td, cs, urlPath) ==
    [td EXCEPT !.GlobalHits = GetGlobalHits(cs),
               !.URLHits = GetURLHits(cs, urlPath)]

Subjects(sd, td) ==
    {SessionSubject(sd.session_id)}
    \cup (IF TabIDOf(td.Signals) # "" THEN {TabSubject(TabIDOf(td.Signals))} ELSE {})

\* handleSSE with a save of the session after the stream was created.
handleSSESaveLate(files, c, sd, td, urlPath, method) ==
    LET allSections == collectSections(files)
        first == At(allSections, 0)
        loop == first.frontmatter.Loop
        interval == first.frontmatter.Interval
        count == first.frontmatter.Count
        stored == GetSeqPos(sd, SeqKey(urlPath, "sse", method))
        pos == IF loop /\ interval > 0
               THEN ClampPos(stored, Len(allSections))
               ELSE 0
        section == At(allSections, pos)
        k0 == [NoConn EXCEPT !.client = c, !.urlPath = urlPath,
                             !.allSections = allSections, !.td = td,
                             !.pos = pos,
                             !.log = <<"flush", "subscribe", "save">>,
                             !.subs = Subjects(sd, td)]
        sent == sendSSESection(k0, pos, td, FALSE)
        k1 == sent.k
        gs == fileGroupStart(allSections, pos)
        delay == IF section.frontmatter.Delay <= 0 THEN DefaultDelay
                 ELSE section.frontmatter.Delay
    IN IF sent.err THEN Return(k1, "error")
       ELSE IF loop /\ interval > 0
       THEN [k1 EXCEPT !.state = "loop", !.interval = interval,
                       !.loopPos = pos, !.loopIteration = 0,
                       !.messageCount = 1, !.count = count,
                       !.groupStart = IF count > 0 THEN gs ELSE 0,
                       !.groupLen = IF count > 0
                                    THEN fileGroupLen(allSections, gs) ELSE 0,
                       !.groupTicks = IF count > 0 THEN 1 ELSE 0]
       ELSE [k1 EXCEPT !.state = IF 1 < Len(allSections) THEN "drain" ELSE "idle",
                       !.delay = delay, !.messageCount = 1, !.i = 1,
                       !.count = count,
                       !.td = [td EXCEPT !.SSEMessageCount = 1,
                                         !.LoopIteration = 0]]

\* handleSSE from its entry to its first select: the connection it leaves.
handleSSE(files, c, sd, td, urlPath, method) ==
    LET allSections == collectSections(files)
        first == At(allSections, 0)
        loop == first.frontmatter.Loop
        interval == first.frontmatter.Interval
        count == first.frontmatter.Count
        stored == GetSeqPos(sd, SeqKey(urlPath, "sse", method))
        pos == IF loop /\ interval > 0
               THEN ClampPos(stored, Len(allSections))
               ELSE 0
        section == At(allSections, pos)
        k0 == [NoConn EXCEPT !.client = c, !.urlPath = urlPath,
                             !.allSections = allSections, !.td = td,
                             !.pos = pos,
                             !.log = <<"flush", "subscribe">>,
                             !.subs = Subjects(sd, td)]
        sent == sendSSESection(k0, pos, td, FALSE)
        k1 == sent.k
        gs == fileGroupStart(allSections, pos)
        delay == IF section.frontmatter.Delay <= 0 THEN DefaultDelay
                 ELSE section.frontmatter.Delay
    IN IF sent.err THEN Return(k1, "error")
       ELSE IF loop /\ interval > 0
       THEN [k1 EXCEPT !.state = "loop", !.interval = interval,
                       !.loopPos = pos, !.loopIteration = 0,
                       !.messageCount = 1, !.count = count,
                       !.groupStart = IF count > 0 THEN gs ELSE 0,
                       !.groupLen = IF count > 0
                                    THEN fileGroupLen(allSections, gs) ELSE 0,
                       !.groupTicks = IF count > 0 THEN 1 ELSE 0]
       ELSE [k1 EXCEPT !.state = IF 1 < Len(allSections) THEN "drain" ELSE "idle",
                       !.delay = delay, !.messageCount = 1, !.i = 1,
                       !.count = count,
                       !.td = [td EXCEPT !.SSEMessageCount = 1,
                                         !.LoopIteration = 0]]

\* An emission with the hit counters of the previous one.
TickEmitStale(k, cs, wfail) ==
    LET li == k.loopIteration + 1
        td == [k.td EXCEPT !.SSEMessageCount = k.messageCount,
                           !.LoopIteration = li]
        k1 == [k EXCEPT !.loopIteration = li, !.td = td]
        sent == sendSSESection(k1, k1.loopPos, td, wfail)
    IN IF sent.err THEN Return(sent.k, "error")
       ELSE [sent.k EXCEPT !.messageCount = @ + 1]

\* Lines 290-300: the emission that ends a timer tick.
TickEmit(k, cs, wfail) ==
    LET li == k.loopIteration + 1
        td == [Refresh(k.td, cs, k.urlPath) EXCEPT
                  !.SSEMessageCount = k.messageCount, !.LoopIteration = li]
        k1 == [k EXCEPT !.loopIteration = li, !.td = td]
        sent == sendSSESection(k1, k1.loopPos, td, wfail)
    IN IF sent.err THEN Return(sent.k, "error")
       ELSE [sent.k EXCEPT !.messageCount = @ + 1]

\* Lines 270-281: every section of a group that does not loop, once.
RECURSIVE OneShot(_, _, _, _, _)
OneShot(k, cs, nextStart, i, wfail) ==
    IF i >= k.groupLen THEN Return(k, "oneshot")
    ELSE LET li == k.loopIteration + 1
             mc == k.messageCount + 1
             td == [Refresh(k.td, cs, k.urlPath) EXCEPT
                       !.SSEMessageCount = mc, !.LoopIteration = li]
             k1 == [k EXCEPT !.loopIteration = li, !.messageCount = mc,
                             !.td = td]
             sent == sendSSESection(k1, nextStart + i, td, wfail)
         IN IF sent.err THEN Return(sent.k, "error")
            ELSE OneShot(sent.k, cs, nextStart, i + 1, wfail)

\* A position that moves without counting the tick.
GroupAdvanceStuck(k) ==
    [k EXCEPT !.loopPos = k.groupStart + (k.groupTicks % k.groupLen)]

\* Lines 284-285.
GroupAdvance(k) ==
    [k EXCEPT !.loopPos = k.groupStart + (k.groupTicks % k.groupLen),
              !.groupTicks = @ + 1]

\* A test that lets one tick too many through.
GroupExhaustedLate(k) == k.groupTicks > k.count * k.groupLen

\* Line 252: the loops of the current file group are used up.
GroupExhausted(k) == k.groupTicks >= k.count * k.groupLen

\* The body of case <-ticker.C.
OnTick(k, cs, wfail) ==
    IF k.count > 0
    THEN IF GroupExhausted(k)
         THEN LET nextStart == k.groupStart + k.groupLen
              IN IF nextStart >= Len(k.allSections) THEN Return(k, "exhausted")
                 ELSE LET nextSection == At(k.allSections, nextStart)
                          fm == nextSection.frontmatter
                          k1 == [k EXCEPT
                                   !.groupStart = nextStart,
                                   !.groupLen = fileGroupLen(k.allSections, nextStart),
                                   !.count = fm.Count,
                                   !.groupTicks = 0,
                                   !.interval = IF fm.Interval > 0
                                                THEN fm.Interval ELSE @]
                      IN IF ~fm.Loop \/ fm.Interval <= 0
                         THEN OneShot(k1, cs, nextStart, 0, wfail)
                         ELSE TickEmit(GroupAdvance(k1), cs, wfail)
         ELSE TickEmit(GroupAdvance(k), cs, wfail)
    ELSE TickEmit([k EXCEPT !.loopPos = (@ + 1) % Len(k.allSections)], cs, wfail)

\* A message case that counts as a tick of the group.
OnLoopMsgTicks(k, cs, data, wfail) ==
    LET td == [Refresh(k.td, cs, k.urlPath) EXCEPT
                  !.Signals = mergeNATSSignals(data, @),
                  !.SSEMessageCount = k.messageCount,
                  !.LoopIteration = k.loopIteration]
        k1 == [k EXCEPT !.td = td, !.handled = @ + 1, !.groupTicks = @ + 1]
        sent == sendSSESection(k1, k1.loopPos, td, wfail)
    IN IF sent.err THEN Return(sent.k, "error")
       ELSE [sent.k EXCEPT !.messageCount = @ + 1]

\* The body of case msg := <-natsCh in the loop.
OnLoopMsg(k, cs, data, wfail) ==
    LET td == [Refresh(k.td, cs, k.urlPath) EXCEPT
                  !.Signals = mergeNATSSignals(data, @),
                  !.SSEMessageCount = k.messageCount,
                  !.LoopIteration = k.loopIteration]
        k1 == [k EXCEPT !.td = td, !.handled = @ + 1]
        sent == sendSSESection(k1, k1.loopPos, td, wfail)
    IN IF sent.err THEN Return(sent.k, "error")
       ELSE [sent.k EXCEPT !.messageCount = @ + 1]

\* A drain that steps over the section that follows the one it sends.
OnDelaySkip(k, cs, wfail) ==
    LET mc == k.messageCount + 1
        td == [Refresh(k.td, cs, k.urlPath) EXCEPT !.SSEMessageCount = mc]
        k1 == [k EXCEPT !.messageCount = mc, !.td = td]
        sent == sendSSESection(k1, k1.i, td, wfail)
    IN IF sent.err THEN Return(sent.k, "error")
       ELSE [sent.k EXCEPT !.i = @ + 2,
                           !.state = IF k.i + 2 < Len(k.allSections)
                                     THEN "drain" ELSE "idle"]

\* The body of case <-time.After(delay) in the drain, and the loop test
\* that follows it.
OnDelay(k, cs, wfail) ==
    LET mc == k.messageCount + 1
        td == [Refresh(k.td, cs, k.urlPath) EXCEPT !.SSEMessageCount = mc]
        k1 == [k EXCEPT !.messageCount = mc, !.td = td]
        sent == sendSSESection(k1, k1.i, td, wfail)
    IN IF sent.err THEN Return(sent.k, "error")
       ELSE [sent.k EXCEPT !.i = @ + 1,
                           !.state = IF k.i + 1 < Len(k.allSections)
                                     THEN "drain" ELSE "idle"]

\* An idle case that renders the first section of the list.
OnIdleMsgFirst(k, cs, data, wfail) ==
    LET mc == k.messageCount + 1
        td == [Refresh(k.td, cs, k.urlPath) EXCEPT
                  !.Signals = mergeNATSSignals(data, @),
                  !.SSEMessageCount = mc]
        k1 == [k EXCEPT !.messageCount = mc, !.td = td, !.handled = @ + 1]
        sent == sendSSESection(k1, 0, td, wfail)
    IN IF sent.err THEN Return(sent.k, "error") ELSE sent.k

\* The body of case msg := <-natsCh after the drain.
OnIdleMsg(k, cs, data, wfail) ==
    LET mc == k.messageCount + 1
        td == [Refresh(k.td, cs, k.urlPath) EXCEPT
                  !.Signals = mergeNATSSignals(data, @),
                  !.SSEMessageCount = mc]
        k1 == [k EXCEPT !.messageCount = mc, !.td = td, !.handled = @ + 1]
        sent == sendSSESection(k1, Len(k.allSections) - 1, td, wfail)
    IN IF sent.err THEN Return(sent.k, "error") ELSE sent.k

----------------------------------------------------------------------------
(* The server: requests, connections, the directory *)

Clients == {"c1", "c2"}
ConnIds == {1, 2}

NoRequest ==
    [client |-> "", urlPath |-> <<>>, method |-> "", marker |-> FALSE,
     payload |-> EmptyMap, signals |-> EmptyMap, sid |-> "",
     kind |-> "none", files |-> <<>>, status |-> 0, idx |-> -1, n |-> 0,
     out |-> NoBody,
     pubs |-> <<>>, log |-> <<>>]

\* The messages a publish puts on the channel of connection k: one per
\* subscription of k on the subject.
RECURSIVE Deliver(_, _, _, _)
Deliver(k, pubs, from, i) ==
    IF i > Len(pubs) THEN k
    ELSE Deliver(
            IF pubs[i].subject \in k.subs
            THEN [k EXCEPT !.natsCh = Append(@, [data |-> pubs[i].data,
                                                 src |-> pubs[i].src,
                                                 subject |-> pubs[i].subject,
                                                 from |-> from])]
            ELSE k,
            pubs, from, i + 1)

Visits(m, key) == IF key \in DOMAIN m THEN m[key] ELSE <<>>

FreeIds(ids) == {id \in ids : conn[id].state = "none"}

LowestFree(ids) == CHOOSE id \in FreeIds(ids) : \A j \in FreeIds(ids) : id <= j

\* One request, from its arrival to the return of ServePlayground or, on
\* the live path, to the first select of handleSSE.
ServePlayground(c, rawPath, method, header, payload, rndUser, rndSid, ids) ==
    LET urlPath == NormalizePath(rawPath)
        scan == ScanPlaygrounds(disk)
        isDatastarRequest == header # ""
        signals == IF isDatastarRequest THEN payload ELSE EmptyMap
        req == [NoRequest EXCEPT !.client = c, !.urlPath = urlPath,
                                 !.method = method,
                                 !.marker = isDatastarRequest,
                                 !.payload = payload, !.signals = signals]
    IN /\ nreq < MaxReqs
       /\ nreq' = nreq + 1
       /\ UNCHANGED <<disk, edits, calc, hits>>
       /\ IF scan.err
          THEN /\ last' = [req EXCEPT !.kind = "error",
                                      !.status = StatusInternalServerError]
               /\ UNCHANGED <<cookie, counters, conn, served>>
          ELSE IF urlPath \notin DOMAIN scan.routes
          THEN /\ last' = [req EXCEPT !.kind = "notfound",
                                      !.status = StatusNotFound]
               /\ UNCHANGED <<cookie, counters, conn, served>>
          ELSE
            LET rf == scan.routes[urlPath]
                sd0 == GetOrCreate(cookie[c], rndUser, rndSid)
                hit == Hit(counters, urlPath)
                sd == IncrementURLHits(sd0, urlPath)
                td == TemplateData(hit.globalHits, hit.urlHits,
                                   MapGet(sd.url_hits, urlPath), sd, urlPath,
                                   method, signals)
                sseFiles == LookupSSE(rf, method)
                htmlFiles == LookupHTML(rf, method)
                req1 == [req EXCEPT !.sid = sd.session_id]
            IN /\ counters' = hit.counters
               /\ IF isDatastarRequest /\ Len(sseFiles) > 0
                  THEN /\ FreeIds(ids) # {}
                       /\ LET k == handleSSE(sseFiles, c, sd, td, urlPath, method)
                              key == SeqKey(urlPath, "sse", method)
                          IN /\ conn' = [conn EXCEPT ![LowestFree(ids)] =
                                           [k EXCEPT !.log = <<"save">> \o @]]
                             /\ last' = [req1 EXCEPT
                                           !.kind = "sse", !.idx = k.pos,
                                           !.files = sseFiles,
                                           !.n = Len(collectSections(sseFiles))]
                             /\ served' = [served EXCEPT ![c] =
                                   MapPut(@, key, Append(Visits(@, key), k.pos))]
                       /\ cookie' = [cookie EXCEPT ![c] = sd]
                  ELSE IF Len(htmlFiles) > 0
                  THEN LET h == handleHTML(htmlFiles, isDatastarRequest, sd, td,
                                           urlPath, method)
                           conn1 == [id \in ConnIds |->
                                        Deliver(conn[id], h.pubs, c, 1)]
                       IN /\ \A id \in ConnIds : Len(conn1[id].natsCh) <= MaxQueue
                          /\ conn' = conn1
                          /\ cookie' = [cookie EXCEPT ![c] = h.sd]
                          /\ last' = [req1 EXCEPT
                                        !.kind = "html", !.status = h.status,
                                        !.files = htmlFiles,
                                        !.idx = h.idx, !.out = h.out,
                                        !.n = Len(collectSections(htmlFiles)),
                                        !.pubs = h.pubs,
                                        !.log = <<"save">> \o h.log]
                          /\ served' = [served EXCEPT ![c] =
                                MapPut(@, SeqKey(urlPath, "html", method),
                                       Append(Visits(@, SeqKey(urlPath, "html", method)),
                                              h.idx))]
                  ELSE /\ cookie' = [cookie EXCEPT ![c] = sd]
                       /\ last' = [req1 EXCEPT !.kind = "notfound",
                                               !.status = StatusNotFound,
                                               !.log = <<"save", "header">>]
                       /\ UNCHANGED <<conn, served>>

\* The files of the directory are edited between two requests.
EditPlayground(d) ==
    /\ edits < MaxEdits
    /\ d # disk
    /\ disk' = d
    /\ edits' = edits + 1
    /\ UNCHANGED <<cookie, counters, conn, last, served, nreq, calc, hits>>

\* The request's context is cancelled: the client went away.
Cancel(id) ==
    /\ Open(conn[id])
    /\ ~conn[id].cancelled
    /\ conn' = [conn EXCEPT ![id].cancelled = TRUE]
    /\ UNCHANGED <<disk, cookie, counters, last, served, nreq, edits, calc, hits>>

\* A timer that is armed after the drain too.
TimerFireIdle(id) ==
    /\ conn[id].state \in {"loop", "drain", "idle"}
    /\ ~conn[id].timer
    /\ conn' = [conn EXCEPT ![id].timer = TRUE]
    /\ UNCHANGED <<disk, cookie, counters, last, served, nreq, edits, calc, hits>>

\* The ticker of the loop, or the timer of the drain, fires: a tick waits
\* on its channel (of capacity one).
TimerFire(id) ==
    /\ conn[id].state \in {"loop", "drain"}
    /\ ~conn[id].timer
    /\ conn' = [conn EXCEPT ![id].timer = TRUE]
    /\ UNCHANGED <<disk, cookie, counters, last, served, nreq, edits, calc, hits>>

\* The timers of the model stop after MaxEmit emissions; the cancellation
\* and the messages of the bridge are handled whenever they wait.
Bounded(k) == k.messageCount <= MaxEmit /\ Len(k.patches) <= MaxEmit

ConnStep(id, k) ==
    /\ conn' = [conn EXCEPT ![id] = k]
    /\ UNCHANGED <<disk, cookie, counters, last, served, nreq, edits, calc, hits>>

\* A select whose cancellation case only leaves the select: the loop
\* around it goes on.
OnDoneBreak(k) == [k EXCEPT !.cause = "cancel"]

\* The body of case <-r.Context().Done().
OnDone(k) == Return(k, "cancel")

\* select takes case <-r.Context().Done(), in the loop, the drain or idle.
\* Go's select takes any one of the cases that are ready.
HandleDone(id) ==
    /\ Open(conn[id])
    /\ conn[id].cancelled
    /\ ConnStep(id, OnDone(conn[id]))

\* select takes case <-ticker.C.
HandleTick(id, wfail) ==
    /\ conn[id].state = "loop"
    /\ conn[id].timer
    /\ wfail => conn[id].cancelled
    /\ Bounded(OnTick([conn[id] EXCEPT !.timer = FALSE], counters, wfail))
    /\ ConnStep(id, OnTick([conn[id] EXCEPT !.timer = FALSE], counters, wfail))

\* select takes case msg := <-natsCh, in the loop.
HandleLoopMsg(id, wfail) ==
    /\ conn[id].state = "loop"
    /\ conn[id].natsCh # <<>>
    /\ wfail => conn[id].cancelled
    /\ ConnStep(id, OnLoopMsg([conn[id] EXCEPT !.natsCh = Tail(@)], counters,
                              Head(conn[id].natsCh).data, wfail))

\* select takes case <-time.After(delay), in the drain.
HandleDelay(id, wfail) ==
    /\ conn[id].state = "drain"
    /\ conn[id].timer
    /\ wfail => conn[id].cancelled
    /\ Bounded(OnDelay([conn[id] EXCEPT !.timer = FALSE], counters, wfail))
    /\ ConnStep(id, OnDelay([conn[id] EXCEPT !.timer = FALSE], counters, wfail))

\* A receive that takes the newest message of the channel.
HandleIdleMsgNewest(id, wfail) ==
    /\ conn[id].state = "idle"
    /\ conn[id].natsCh # <<>>
    /\ wfail => conn[id].cancelled
    /\ LET q == conn[id].natsCh
       IN ConnStep(id, OnIdleMsg([conn[id] EXCEPT
                                    !.natsCh = SubSeq(q, 1, Len(q) - 1)],
                                 counters, q[Len(q)].data, wfail))

\* select takes case msg := <-natsCh, after the drain.
HandleIdleMsg(id, wfail) ==
    /\ conn[id].state = "idle"
    /\ conn[id].natsCh # <<>>
    /\ wfail => conn[id].cancelled
    /\ ConnStep(id, OnIdleMsg([conn[id] EXCEPT !.natsCh = Tail(@)], counters,
                              Head(conn[id].natsCh).data, wfail))

----------------------------------------------------------------------------
(* Directories, requests and specifications *)

PathA == <<"/", "a", "/">>
PathB == <<"/", "b", "/">>

RouteFiles(html, sse) == [HTMLFiles |-> html, SSEFiles |-> sse]

Disk(routes) == [broken |-> FALSE, routes |-> routes]

SigAB == ("a" :> "1" @@ "b" :> "2")
SigBC == ("b" :> "3" @@ "c" :> "4")
SigTab == ("a" :> "1" @@ "tab_id" :> "'t1'")
SigTabEmpty == ("tab_id" :> "''")
SigTabNumber == ("tab_id" :> "7")

\* No goroutine is in Hit; NewCounters has made the empty map.
NoCall == [pc |-> "idle", urlPath |-> <<>>, counter |-> 0, ok |-> FALSE,
           globalHits |-> 0, urlHits |-> 0]

Goroutines == 1..3

NoHits == [mu |-> [readers |-> {}, writer |-> 0],
           globalHits |-> 0,
           urlHits |-> EmptyMap,
           memory |-> <<>>,
           call |-> [g \in Goroutines |-> NoCall],
           returned |-> <<>>]

\* No pure function has been called.
NoCalc == [fn |-> "", in |-> <<>>, out |-> <<>>]

InitWith(disks) ==
    /\ disk \in disks
    /\ cookie = [c \in Clients |-> NoSession]
    /\ counters = [globalHits |-> 0, urlHits |-> EmptyMap]
    /\ conn = [id \in ConnIds |-> NoConn]
    /\ last = NoRequest
    /\ served = [c \in Clients |-> EmptyMap]
    /\ nreq = 0
    /\ edits = 0
    /\ calc = NoCalc
    /\ hits = NoHits

(* The section sequencer: routes whose any-method html list is made of one
   or two files of one or two sections, looping or not. *)

SeqFiles ==
    {ParsedFile(Frontmatter(loop, 0, 0, 0, 0), secs) :
        loop \in BOOLEAN, secs \in {<<"A">>, <<"A", "B">>}}

SeqLists == {<<f>> : f \in SeqFiles} \cup {<<f, g>> : f \in SeqFiles, g \in SeqFiles}

SeqDisks ==
    {Disk(PathA :> RouteFiles("" :> l, EmptyMap)) : l \in SeqLists}

SeqRequest ==
    \E c \in Clients, p \in {<<"/", "a">>, PathA}, m \in {"GET", "POST"} :
        ServePlayground(c, p, m, "", EmptyMap, "swift-fox-1", "calm-owl-2", {})

SeqInit == InitWith(SeqDisks)

SeqNext == SeqRequest

SpecSeq == SeqInit /\ [][SeqNext]_vars

----------------------------------------------------------------------------
(* Properties of the section sequencer *)

\* The flattened html list that a request of method m on path p selects.
HTMLSections(p, m) == collectSections(LookupHTML(disk.routes[p], m))

AllLoop(secs, b) == \A i \in 1..Len(secs) : secs[i].frontmatter.Loop = b

\* The html keys of client c whose list has more than one section, all
\* with loop = b.
SeqKeys(c, b) ==
    {key \in DOMAIN served[c] :
        /\ key[2] = "html"
        /\ Len(HTMLSections(key[1], key[3])) > 1
        /\ AllLoop(HTMLSections(key[1], key[3]), b)}

\* C1: on a route whose html list has N > 1 sections, none looping, and
\* is not edited, the k-th html request of a session with one method is
\* served section min(k-1, N-1): 0,1,...,N-1,N-1,... without reset.
C1_NonLoopingSaturates ==
    edits = 0 =>
        \A c \in Clients : \A key \in SeqKeys(c, FALSE) :
            \A k \in 1..Len(served[c][key]) :
                served[c][key][k] =
                    Min(k - 1, Len(HTMLSections(key[1], key[3])) - 1)

C1_Witness ==
    \E c \in Clients : \E key \in SeqKeys(c, FALSE) :
        /\ edits = 0
        /\ Len(HTMLSections(key[1], key[3])) = 3
        /\ served[c][key] = <<0, 1, 2, 2, 2>>

\* C2: on a route whose html list has N > 1 sections, all looping, and is
\* not edited, the k-th html request of a session with one method is
\* served section (k-1) mod N: 0,1,...,N-1,0,1,...
C2_LoopingWraps ==
    edits = 0 =>
        \A c \in Clients : \A key \in SeqKeys(c, TRUE) :
            \A k \in 1..Len(served[c][key]) :
                served[c][key][k] = (k - 1) % Len(HTMLSections(key[1], key[3]))

C2_Witness ==
    \E c \in Clients : \E key \in SeqKeys(c, TRUE) :
        /\ edits = 0
        /\ Len(HTMLSections(key[1], key[3])) = 3
        /\ served[c][key] = <<0, 1, 2, 0, 1>>

----------------------------------------------------------------------------
(* The dispatcher: one route whose html and live lists exist for every
   choice of the keys "" (any method) and GET; a second path has no route. *)

MaxDispatchReqs == 2

PathZ == <<"/", "z", "/">>

OneFile(body) == <<ParsedFile(Frontmatter(FALSE, 0, 0, 0, 0), <<body>>)>>

HTMLByKey == ("" :> OneFile("html-any") @@ "GET" :> OneFile("html-get"))
SSEByKey == ("" :> OneFile("sse-any") @@ "GET" :> OneFile("sse-get"))

Restrict(f, keys) == [x \in keys |-> f[x]]

DispatchDisks ==
    {Disk(PathA :> RouteFiles(Restrict(HTMLByKey, hk), Restrict(SSEByKey, sk))) :
        hk \in SUBSET {"", "GET"}, sk \in SUBSET {"", "GET"}}

\* A request without the marker header may carry signals all the same.
DispatchInputs ==
    {<<"", SigTab>>} \cup
    {<<"true", p>> : p \in {EmptyMap, SigAB, SigTab, SigTabEmpty, SigTabNumber}}

DispatchRequest ==
    \E p \in {<<"/", "a">>, PathZ}, m \in {"GET", "POST"}, in \in DispatchInputs,
       rnd \in {"swift-fox-1", "calm-owl-2"} :
        /\ nreq < MaxDispatchReqs
        /\ ServePlayground("c1", p, m, in[1], in[2], "swift-fox-1", rnd, ConnIds)

DispatchInit == InitWith(DispatchDisks)

DispatchNext == DispatchRequest

SpecDispatch == DispatchInit /\ [][DispatchNext]_vars

Served == last.kind # "none"

KnownRoute == ~disk.broken /\ last.urlPath \in DOMAIN disk.routes

\* The list stored for method m or, failing that, for the any-method key;
\* the empty list when neither exists.
ListFor(lists, m) ==
    IF m \in DOMAIN lists THEN lists[m]
    ELSE IF "" \in DOMAIN lists THEN lists[""]
    ELSE <<>>

\* C5: a request to a known route with the marker goes to the live-stream
\* engine if a live list exists for its method or else for any method;
\* every other request goes to html rendering if an html list exists under
\* the same rule; otherwise the answer is 404.  A request without the
\* marker never goes to the live-stream engine.
C5_DispatchOrder ==
    (Served /\ KnownRoute) =>
        LET rf == disk.routes[last.urlPath]
            live == ListFor(rf.SSEFiles, last.method)
            html == ListFor(rf.HTMLFiles, last.method)
        IN /\ (last.marker /\ live # <<>>) =>
                  (last.kind = "sse" /\ last.files = live)
           /\ (~(last.marker /\ live # <<>>) /\ html # <<>>) =>
                  (last.kind = "html" /\ last.files = html)
           /\ (~(last.marker /\ live # <<>>) /\ html = <<>>) =>
                  (last.kind = "notfound" /\ last.status = StatusNotFound)
           /\ ~last.marker => last.kind # "sse"

\* A live-update request that finds no live list and is served as html.
C5_Witness ==
    /\ Served /\ KnownRoute
    /\ last.marker
    /\ last.method = "POST"
    /\ DOMAIN disk.routes[last.urlPath].SSEFiles = {"GET"}
    /\ last.kind = "html"
    /\ last.files = OneFile("html-any")

\* C6: a route with only an any-method list selects it for GET and POST
\* alike; a route with only a GET list selects nothing for POST; with a
\* GET list and an any-method list, GET gets the GET list only.
C6_MethodFallback ==
    (Served /\ KnownRoute) =>
        LET rf == disk.routes[last.urlPath]
            live == last.kind = "sse"
            html == last.kind = "html"
        IN /\ (html /\ DOMAIN rf.HTMLFiles = {""}) => last.files = rf.HTMLFiles[""]
           /\ (live /\ DOMAIN rf.SSEFiles = {""}) => last.files = rf.SSEFiles[""]
           /\ (DOMAIN rf.HTMLFiles = {""}) => (html \/ live)
           /\ (DOMAIN rf.HTMLFiles = {"GET"} /\ last.method = "POST") => ~html
           /\ (DOMAIN rf.SSEFiles = {"GET"} /\ last.method = "POST") => ~live
           /\ (html /\ DOMAIN rf.HTMLFiles = {"", "GET"} /\ last.method = "GET")
                 => last.files = rf.HTMLFiles["GET"]
           /\ (live /\ DOMAIN rf.SSEFiles = {"", "GET"} /\ last.method = "GET")
                 => last.files = rf.SSEFiles["GET"]

\* A POST served from the any-method list of a route that has no other.
C6_Witness ==
    /\ Served /\ KnownRoute
    /\ DOMAIN disk.routes[last.urlPath].HTMLFiles = {""}
    /\ last.method = "POST"
    /\ last.kind = "html"
    /\ last.files = OneFile("html-any")

Subjects_(pubs) == [i \in 1..Len(pubs) |-> pubs[i].subject]

\* C10: a request publishes exactly when it carries the marker, has a
\* nonempty signal map and is served by the html path: once to the session
\* subject of its session id, and once more to the tab subject iff tab_id
\* is a nonempty string.  Every other request publishes nothing.
C10_PublishExactlyWhen ==
    Served =>
        LET sig == last.payload
            should == last.kind = "html" /\ last.marker /\ DOMAIN sig # {}
            tab == /\ "tab_id" \in DOMAIN sig
                   /\ sig["tab_id"] \in JSONStrings
                   /\ sig["tab_id"] # "''"
            session == "dspen.session." \o cookie[last.client].session_id
        IN /\ Subjects_(last.pubs) =
                 (IF ~should THEN <<>>
                  ELSE IF tab THEN <<session, "dspen.tab." \o sig["tab_id"]>>
                  ELSE <<session>>)
           /\ \A i \in 1..Len(last.pubs) : last.pubs[i].src = sig

\* A marker request served as html whose signals carry a tab id.
C10_Witness ==
    /\ last.kind = "html" /\ last.marker
    /\ last.payload = SigTab
    /\ Len(last.pubs) = 2

----------------------------------------------------------------------------
(* The live-stream engine: one connection on /a/, whose session publishes
   signals through html requests on /b/. *)

MaxLiveReqs == 3

\* File A: loop, interval > 0, count c, one section.  File B: no loop.
CountedA(c) == ParsedFile(Frontmatter(TRUE, 100, c, 0, 0), <<"A">>)
StaticB(secs) == ParsedFile(Frontmatter(FALSE, 0, 0, 0, 0), secs)

CountedLists ==
    {<<CountedA(c), StaticB(secs)>> :
        c \in 1..3, secs \in {<<"B">>, <<"B", "C">>, <<"B", "">>, <<"", "C">>}}

LoopLists == {<<ParsedFile(Frontmatter(TRUE, 100, 0, 0, 0), <<"A", "B">>)>>}

DrainLists ==
    {<<StaticB(secs)>> : secs \in {<<"A">>, <<"A", "B">>, <<"A", "B", "C">>}}

LiveLists == CountedLists \cup LoopLists \cup DrainLists

LiveDisks ==
    {Disk(PathA :> RouteFiles(EmptyMap, "" :> l)
          @@ PathB :> RouteFiles("" :> OneFile("page"), EmptyMap)) :
        l \in LiveLists}

LiveRequest ==
    /\ nreq < MaxLiveReqs
    /\ ServePlayground("c1", PathA, "GET", "true", SigAB,
                       "swift-fox-1", "calm-owl-2", {1})

PublishRequest ==
    /\ nreq < MaxLiveReqs
    /\ ServePlayground("c1", PathB, "POST", "true", SigBC,
                       "swift-fox-1", "calm-owl-2", {1})

LiveInit == InitWith(LiveDisks)

LiveNext ==
    \/ LiveRequest
    \/ PublishRequest
    \/ Cancel(1)
    \/ TimerFire(1)
    \/ HandleDone(1)
    \/ \E wfail \in BOOLEAN : HandleTick(1, wfail)
    \/ \E wfail \in BOOLEAN : HandleLoopMsg(1, wfail)
    \/ \E wfail \in BOOLEAN : HandleDelay(1, wfail)
    \/ \E wfail \in BOOLEAN : HandleIdleMsg(1, wfail)

SpecLive == LiveInit /\ [][LiveNext]_vars

\* Go's select takes one of its ready cases at random: a case that stays
\* ready is taken in the end.
SpecLiveFair == SpecLive /\ WF_vars(HandleDone(1))

----------------------------------------------------------------------------
(* Properties of the live-stream engine *)

Positions(k) == [i \in 1..Len(k.patches) |-> k.patches[i].pos]

IsPrefix(a, b) == Len(a) <= Len(b) /\ \A i \in 1..Len(a) : a[i] = b[i]

\* The section list of k is file A (loop, interval > 0, count > 0, one
\* nonempty section) followed by file B (no loop).
CountedThenStatic(k) ==
    LET secs == k.allSections
    IN /\ Len(secs) >= 2
       /\ secs[1].fileIndex = 0 /\ secs[1].content # ""
       /\ secs[1].frontmatter.Loop
       /\ secs[1].frontmatter.Interval > 0
       /\ secs[1].frontmatter.Count > 0
       /\ \A i \in 2..Len(secs) :
             secs[i].fileIndex = 1 /\ ~secs[i].frontmatter.Loop

\* No cancellation, no render or write error, no bridge message handled.
Undisturbed(k) == ~k.cancelled /\ k.cause # "error" /\ k.handled = 0

\* c times position 0, then the positions 1..m of B.
CountedThenAll(k) ==
    LET c == k.allSections[1].frontmatter.Count
    IN [i \in 1..(c + Len(k.allSections) - 1) |-> IF i <= c THEN 0 ELSE i - c]

\* c times position 0, then the positions of the nonempty sections of B.
CountedThenNonEmpty(k) ==
    LET c == k.allSections[1].frontmatter.Count
        B == [i \in 1..(Len(k.allSections) - 1) |-> i]
        nonEmpty(i) == At(k.allSections, i).content # ""
    IN [i \in 1..c |-> 0] \o SelectSeq(B, nonEmpty)

\* C3 as claimed: an undisturbed connection on A then B emits A's section
\* c times, then every one of B's m sections once in order, then closes.
C3_AllOfB ==
    \A id \in ConnIds :
        (conn[id].state # "none" /\ CountedThenStatic(conn[id])
         /\ Undisturbed(conn[id])) =>
            /\ IsPrefix(Positions(conn[id]), CountedThenAll(conn[id]))
            /\ (conn[id].state = "closed"
                <=> Positions(conn[id]) = CountedThenAll(conn[id]))

\* C3, amended: an undisturbed connection on A then B emits A's section c
\* times, then every nonempty section of B once in order, and is closed
\* from the tick that follows A's c-th emission on; it emits nothing else.
C3_NonEmptyOfB ==
    \A id \in ConnIds :
        (conn[id].state # "none" /\ CountedThenStatic(conn[id])
         /\ Undisturbed(conn[id])) =>
            /\ IsPrefix(Positions(conn[id]), CountedThenNonEmpty(conn[id]))
            /\ conn[id].state = "closed" =>
                  /\ Positions(conn[id]) = CountedThenNonEmpty(conn[id])
                  /\ conn[id].cause = "oneshot"
            /\ Len(Positions(conn[id])) > conn[id].allSections[1].frontmatter.Count
                  => conn[id].state = "closed"

C3_Witness ==
    \E id \in ConnIds :
        /\ CountedThenStatic(conn[id]) /\ Undisturbed(conn[id])
        /\ conn[id].allSections[1].frontmatter.Count = 3
        /\ conn[id].state = "closed"
        /\ Positions(conn[id]) = <<0, 0, 0, 1, 2>>

\* A step of connection id that takes a message from its channel.
Receives(id) == Len(conn'[id].natsCh) < Len(conn[id].natsCh)

\* C4: merging a payload P into the signal map S of a connection gives the
\* keys of S and of P, with P's value on every key of P and S's value on
\* the others; no step of a connection removes a key of its signal map.
C4_MergeNonDestructive ==
    [][\A id \in ConnIds :
          LET S == conn[id].td.Signals
              T == conn'[id].td.Signals
          IN /\ (conn[id].state # "none") => (DOMAIN S \subseteq DOMAIN T)
             /\ Receives(id) =>
                   LET P == Head(conn[id].natsCh).src
                   IN /\ DOMAIN T = (DOMAIN S) \cup (DOMAIN P)
                      /\ \A x \in DOMAIN P : T[x] = P[x]
                      /\ \A x \in (DOMAIN S) \ (DOMAIN P) : T[x] = S[x]]_vars

\* {a:1, b:2} merged with {b:3, c:4}.
C4_Witness ==
    \E id \in ConnIds :
        /\ conn[id].handled > 0
        /\ conn[id].td.Signals = ("a" :> "1" @@ "b" :> "3" @@ "c" :> "4")

\* The first section of the list does not make the connection loop.
NoLoopMode(secs) ==
    ~(secs[1].frontmatter.Loop /\ secs[1].frontmatter.Interval > 0)

\* C7 as claimed: after the k-th live request of a session on a list of
\* more than one section that does not loop, the session's live cursor
\* for the key has been advanced k times under the html rule.
C7_LiveCursorAdvanced ==
    (last.kind = "sse" /\ last.n > 1
     /\ NoLoopMode(collectSections(last.files))) =>
        LET key == SeqKey(last.urlPath, "sse", last.method)
            k == Len(served[last.client][key])
            stored == MapGet(cookie[last.client].seq_pos, key)
        IN stored = IF collectSections(last.files)[1].frontmatter.Loop
                    THEN k % last.n
                    ELSE Min(k, last.n - 1)

SavesAfterFlush(log) ==
    {i \in 1..Len(log) :
        log[i] = "save" /\ \E j \in 1..(i - 1) : log[j] = "flush"}

\* C8: on a live request every save of the session comes before the
\* stream is created; no state of the connection saves the session.
C8_NoSaveAfterFlush ==
    \A id \in ConnIds :
        conn[id].state # "none" =>
            /\ SavesAfterFlush(conn[id].log) = {}
            /\ conn[id].log[1] = "save"
            /\ cookie[conn[id].client].url_hits[conn[id].urlPath] >= 1

\* A connection that has emitted on a tick after its stream was created.
C8_Witness ==
    \E id \in ConnIds :
        /\ conn[id].loopIteration > 0
        /\ Len(conn[id].patches) > 1
        /\ conn[id].log[2] = "flush"

\* C9 as claimed: no patch is emitted once the cancellation has fired.
C9_NoPatchAfterCancel ==
    \A id \in ConnIds :
        \A i \in 1..Len(conn[id].patches) : ~conn[id].patches[i].late

\* C9, amended: a connection whose cancellation has fired ends closed;
\* once its select has taken the cancellation case it is closed, holds no
\* subscription and never emits again.  (A tick or a message that waits
\* when the cancellation fires may be taken first, and its patch emitted.)
C9_ClosedOnceCancelTaken ==
    /\ \A id \in {1} : conn[id].cancelled ~> (conn[id].state = "closed")
    /\ [](\A id \in ConnIds :
            conn[id].cause = "cancel" =>
                (conn[id].state = "closed" /\ conn[id].subs = {}))
    /\ [][\A id \in ConnIds :
            conn[id].cause = "cancel" => conn'[id].patches = conn[id].patches]_vars

\* The cancellation is taken while a tick and a message wait.
C9_Witness ==
    \E id \in ConnIds :
        /\ conn[id].cause = "cancel"
        /\ conn[id].natsCh # <<>>
        /\ Len(conn[id].patches) > 1
        /\ \E i \in 1..Len(conn[id].patches) : conn[id].patches[i].late

----------------------------------------------------------------------------
(* The bridge reaches the live connection *)

\* One connection that is never cancelled, on a counted loop, a loop
\* without count, a drain of three sections or a single section, and the
\* publishes of its session.
BridgeLists ==
    {<<CountedA(1), StaticB(<<"B">>)>>,
     <<ParsedFile(Frontmatter(TRUE, 100, 0, 0, 0), <<"A", "">>)>>,
     <<StaticB(<<"A", "B", "C">>)>>,
     <<StaticB(<<"A">>)>>}

BridgeDisks ==
    {Disk(PathA :> RouteFiles(EmptyMap, "" :> l)
          @@ PathB :> RouteFiles("" :> OneFile("page"), EmptyMap)) :
        l \in BridgeLists}

BridgeInit == InitWith(BridgeDisks)

BridgeNext ==
    \/ LiveRequest
    \/ PublishRequest
    \/ TimerFire(1)
    \/ HandleTick(1, FALSE)
    \/ HandleLoopMsg(1, FALSE)
    \/ HandleDelay(1, FALSE)
    \/ HandleIdleMsg(1, FALSE)

\* Go's select takes one of its ready cases at random: a message that waits
\* on natsCh is taken in the end, in the loop and after the drain.  The
\* connection is not cancelled.
SpecBridgeFair ==
    /\ BridgeInit /\ [][BridgeNext]_vars
    /\ WF_vars(HandleLoopMsg(1, FALSE))
    /\ WF_vars(HandleIdleMsg(1, FALSE))

\* The connection is in one of the two selects that read natsCh.
Listening(k) == k.state \in {"loop", "idle"} /\ k.subs # {}

\* The messages put on the channel of k so far.
Delivered(k) == k.handled + Len(k.natsCh)

\* The section a message makes the connection render: the position of the
\* loop, or the last section after the drain.
CurrentPos(k) == IF k.state = "loop" THEN k.loopPos ELSE Len(k.allSections) - 1

\* The step of connection id that takes message P rendered the current
\* section with P merged into the signals (an empty section gives no
\* patch).
RendersMerged(id) ==
    LET k == conn[id]
        k2 == conn'[id]
        P == Head(k.natsCh).src
        cur == CurrentPos(k)
    IN /\ \A x \in DOMAIN P : k2.td.Signals[x] = P[x]
       /\ IF At(k.allSections, cur).content = ""
          THEN k2.patches = k.patches
          ELSE /\ Len(k2.patches) = Len(k.patches) + 1
               /\ k2.patches[Len(k2.patches)].pos = cur
               /\ k2.patches[Len(k2.patches)].out.body = At(k.allSections, cur).content
               /\ k2.patches[Len(k2.patches)].out.td.Signals = k2.td.Signals

\* C11 as claimed: every message published to a listening connection that
\* is not cancelled is rendered in the end, unless it is cancelled.
C11_RenderedUnlessCancelled ==
    \A n \in 1..(MaxLiveReqs - 1) :
        (Listening(conn[1]) /\ ~conn[1].cancelled /\ Delivered(conn[1]) >= n)
            ~> (conn[1].handled >= n \/ conn[1].cancelled)

\* C11, amended: every message published by the session to its connection
\* that listens (in the loop or after the drain) is taken in the end,
\* unless the connection closes first (as a counted loop that runs out
\* does); the step that takes it merges the published
\* signals and renders the current section with them.
C11_RenderedUnlessClosed ==
    /\ \A n \in 1..(MaxLiveReqs - 1) :
          (Listening(conn[1]) /\ Delivered(conn[1]) >= n)
              ~> (conn[1].handled >= n \/ conn[1].state = "closed")
    /\ [][\A id \in ConnIds :
            (Receives(id) /\ conn'[id].cause # "error") => RendersMerged(id)]_vars

\* A message rendered in the loop, and one rendered after the drain.
C11_Witness ==
    \E id \in ConnIds :
        LET k == conn[id]
        IN /\ k.handled > 0 /\ ~k.cancelled
           /\ k.state = "idle" /\ Len(k.allSections) = 3
           /\ k.patches[Len(k.patches)].pos = 2
           /\ k.patches[Len(k.patches)].out.td.Signals
                 = ("a" :> "1" @@ "b" :> "3" @@ "c" :> "4")

----------------------------------------------------------------------------
(* The parser: file names.  A file name stem is a sequence of characters. *)

LowerLetters == <<"a", "b", "c", "d", "e", "f", "g", "h", "i", "j", "k", "l", "m", "n", "o", "p", "q", "r", "s", "t", "u", "v", "w", "x", "y", "z">>
UpperLetters == <<"A", "B", "C", "D", "E", "F", "G", "H", "I", "J", "K", "L", "M", "N", "O", "P", "Q", "R", "S", "T", "U", "V", "W", "X", "Y", "Z">>
DigitChars == <<"0", "1", "2", "3", "4", "5", "6", "7", "8", "9">>

\* The position of character c in seq, 0 when it is not there.
IndexIn(seq, c) ==
    IF \E i \in 1..Len(seq) : seq[i] = c
    THEN CHOOSE i \in 1..Len(seq) : seq[i] = c
    ELSE 0

\* strings.ToLower, strings.ToUpper (ASCII)
ToLowerStr(s) ==
    [i \in 1..Len(s) |->
        IF IndexIn(UpperLetters, s[i]) > 0
        THEN LowerLetters[IndexIn(UpperLetters, s[i])] ELSE s[i]]

ToUpperStr(s) ==
    [i \in 1..Len(s) |->
        IF IndexIn(LowerLetters, s[i]) > 0
        THEN UpperLetters[IndexIn(LowerLetters, s[i])] ELSE s[i]]

\* strings.LastIndex(s, c): 0-based, -1 when c does not occur.
LastIndex(s, c) ==
    IF \E i \in 1..Len(s) : s[i] = c
    THEN (CHOOSE i \in 1..Len(s) :
             s[i] = c /\ \A j \in (i + 1)..Len(s) : s[j] # c) - 1
    ELSE -1

HasSuffix(s, suffix) ==
    /\ Len(s) >= Len(suffix)
    /\ SubSeq(s, Len(s) - Len(suffix) + 1, Len(s)) = suffix

\* The digits of s without its leading zeros.
RECURSIVE Significant(_)
Significant(s) ==
    IF s # <<>> /\ s[1] = "0" THEN Significant(Tail(s)) ELSE s

\* The value of a sequence of digits.
RECURSIVE DigitsValue(_)
DigitsValue(s) ==
    IF s = <<>> THEN 0
    ELSE 10 * DigitsValue(SubSeq(s, 1, Len(s) - 1)) + (IndexIn(DigitChars, s[Len(s)]) - 1)

\* a > b for two sequences of digits of the same length.
RECURSIVE GreaterDigits(_, _)
GreaterDigits(a, b) ==
    IF a = <<>> THEN FALSE
    ELSE IF a[1] # b[1] THEN IndexIn(DigitChars, a[1]) > IndexIn(DigitChars, b[1])
    ELSE GreaterDigits(Tail(a), Tail(b))

\* The digits of 2^63 - 1 and of 2^63: the range of int.
MaxIntDigits == <<"9", "2", "2", "3", "3", "7", "2", "0", "3", "6", "8", "5", "4", "7", "7", "5", "8", "0", "7">>
MinIntDigits == <<"9", "2", "2", "3", "3", "7", "2", "0", "3", "6", "8", "5", "4", "7", "7", "5", "8", "0", "8">>

\* strconv.Atoi: an optional sign, then one digit or more, in the range of
\* int; anything else is an error.
Atoi(s) ==
    LET signed == s # <<>> /\ s[1] \in {"+", "-"}
        neg == s # <<>> /\ s[1] = "-"
        body == IF signed THEN Tail(s) ELSE s
        sig == Significant(body)
        limit == IF neg THEN MinIntDigits ELSE MaxIntDigits
    IN IF body = <<>> \/ \E i \in 1..Len(body) : IndexIn(DigitChars, body[i]) = 0
       THEN [err |-> TRUE, n |-> 0]
       ELSE IF Len(sig) > Len(limit)
               \/ (Len(sig) = Len(limit) /\ GreaterDigits(sig, limit))
       THEN [err |-> TRUE, n |-> 0]
       ELSE [err |-> FALSE,
             n |-> IF neg THEN 0 - DigitsValue(sig) ELSE DigitsValue(sig)]

\* An extraction that looks at the first underscore of the stem.
extractSeqIndexFirst(stem) ==
    LET firstUnderscore == IndexIn(stem, "_") - 1
        suffix == SubSeq(stem, firstUnderscore + 2, Len(stem))
    IN IF firstUnderscore < 0 THEN [base |-> stem, idx |-> -1]
       ELSE IF ~Atoi(suffix).err /\ Len(suffix) > 0
       THEN [base |-> SubSeq(stem, 1, firstUnderscore), idx |-> Atoi(suffix).n]
       ELSE [base |-> stem, idx |-> -1]

extractSeqIndex(stem) ==
    LET lastUnderscore == LastIndex(stem, "_")
        suffix == SubSeq(stem, lastUnderscore + 2, Len(stem))
    IN IF lastUnderscore < 0 THEN [base |-> stem, idx |-> -1]
       ELSE IF ~Atoi(suffix).err /\ Len(suffix) > 0
       THEN [base |-> SubSeq(stem, 1, lastUnderscore), idx |-> Atoi(suffix).n]
       ELSE [base |-> stem, idx |-> -1]

knownMethods ==
    {<<"g", "e", "t">>, <<"p", "o", "s", "t">>, <<"p", "u", "t">>, <<"p", "a", "t", "c", "h">>, <<"d", "e", "l", "e", "t", "e">>}

classifyFile(stem) ==
    LET e == extractSeqIndex(stem)
        remaining == e.base
        seqIdx == e.idx
        isSSE == HasSuffix(ToLowerStr(remaining), <<"_", "s", "s", "e">>)
        rest == IF isSSE THEN SubSeq(remaining, 1, Len(remaining) - 4)
                ELSE remaining
    IN IF ToLowerStr(remaining) = <<"s", "s", "e">>
       THEN [method |-> <<>>, isSSE |-> TRUE, seqIdx |-> seqIdx]
       ELSE IF ToLowerStr(rest) \in knownMethods
       THEN [method |-> ToUpperStr(rest), isSSE |-> isSSE, seqIdx |-> seqIdx]
       ELSE [method |-> <<>>, isSSE |-> isSSE, seqIdx |-> seqIdx]

(* File name stems: up to MaxPieces pieces put end to end. *)

MaxPieces == 3

StemPieces ==
    {<<"p", "o", "s", "t">>,
     <<"G", "e", "t">>,
     <<"s", "t", "e", "p">>,
     <<"i", "n", "d", "e", "x">>,
     <<"s", "s", "e">>,
     <<"_", "s", "s", "e">>,
     <<"_", "S", "S", "E">>,
     <<"_", "0", "0", "3">>,
     <<"_", "-", "5">>,
     <<"_", "+", "2">>,
     <<"_">>,
     <<"_", "1", "x">>,
     <<"_", "9", "9", "9", "9", "9", "9", "9", "9", "9", "9", "9", "9", "9", "9", "9", "9", "9", "9", "9", "9">>}

RECURSIVE StemsOf(_)
StemsOf(n) ==
    IF n = 0 THEN {<<>>}
    ELSE StemsOf(n - 1) \cup {s \o p : s \in StemsOf(n - 1), p \in StemPieces}

Stems == StemsOf(MaxPieces)

\* No request is served: the server is as constructed, on an empty
\* directory.
IdleServer ==
    /\ disk = Disk(EmptyMap)
    /\ cookie = [c \in Clients |-> NoSession]
    /\ counters = [globalHits |-> 0, urlHits |-> EmptyMap]
    /\ conn = [id \in ConnIds |-> NoConn]
    /\ last = NoRequest
    /\ served = [c \in Clients |-> EmptyMap]
    /\ nreq = 0
    /\ edits = 0
    /\ hits = NoHits

Call(fn, out) ==
    /\ calc.fn = "input"
    /\ calc' = [fn |-> fn, in |-> calc.in, out |-> out]
    /\ UNCHANGED <<disk, cookie, counters, conn, last, served, nreq, edits, hits>>

CallExtractSeqIndex == Call("extractSeqIndex", extractSeqIndex(calc.in))

CallClassifyFile == Call("classifyFile", classifyFile(calc.in))

ClassifyInit ==
    /\ IdleServer
    /\ calc \in {[fn |-> "input", in |-> stem, out |-> <<>>] : stem \in Stems}

ClassifyNext == CallExtractSeqIndex \/ CallClassifyFile

SpecClassify == ClassifyInit /\ [][ClassifyNext]_vars

----------------------------------------------------------------------------
(* Properties of the classification *)

MethodNames ==
    {<<>>, <<"G", "E", "T">>, <<"P", "O", "S", "T">>, <<"P", "U", "T">>, <<"P", "A", "T", "C", "H">>, <<"D", "E", "L", "E", "T", "E">>}

\* C12 as claimed: for every stem the classification gives a method among
\* "", GET, POST, PUT, PATCH, DELETE, a boolean kind, and a sequence index
\* that is an integer >= -1.
C12_ClassifierTotal ==
    calc.fn = "classifyFile" =>
        /\ calc.out.method \in MethodNames
        /\ calc.out.isSSE \in BOOLEAN
        /\ calc.out.seqIdx \in Int
        /\ calc.out.seqIdx >= -1

\* The underscores of the stem that are followed by a number up to the end
\* of the stem: none, or the last underscore alone.
NumericSuffixAt(stem) ==
    {i \in 1..Len(stem) :
        stem[i] = "_" /\ ~Atoi(SubSeq(stem, i + 1, Len(stem))).err}

\* The classification by the rules in their order: the numeric suffix, the
\* live marker alone, the live marker as a suffix, the method name.
ByPrecedence(stem) ==
    LET cut == NumericSuffixAt(stem)
        at == CHOOSE i \in cut : TRUE
        base == IF cut = {} THEN stem ELSE SubSeq(stem, 1, at - 1)
        index == IF cut = {} THEN -1
                 ELSE Atoi(SubSeq(stem, at + 1, Len(stem))).n
        lower == ToLowerStr(base)
        marker == <<"s", "s", "e">>
        alone == lower = marker
        suffixed == ~alone /\ HasSuffix(lower, <<"_">> \o marker)
        rest == IF suffixed THEN SubSeq(base, 1, Len(base) - Len(marker) - 1)
                ELSE base
        named == ~alone /\ ToLowerStr(rest) \in knownMethods
    IN [base |-> base,
        method |-> IF named THEN ToUpperStr(rest) ELSE <<>>,
        isSSE |-> alone \/ suffixed,
        seqIdx |-> index]

\* C13: the classification strips a trailing _NNN first, which becomes the
\* sequence index (-1 without one); then a remaining stem equal to the live
\* marker, in any case, is live for any method; else a trailing _marker
\* makes it live and is stripped; then a remaining method name gives that
\* method in upper case, and anything else gives any method, with the kind
\* found before (html when no marker was found).
C13_ClassifyPrecedence ==
    /\ calc.fn = "extractSeqIndex" =>
          /\ calc.out.base = ByPrecedence(calc.in).base
          /\ calc.out.idx = ByPrecedence(calc.in).seqIdx
          /\ (calc.in = <<"s", "t", "e", "p", "_", "0", "0", "3">>) =>
                calc.out = [base |-> <<"s", "t", "e", "p">>, idx |-> 3]
          /\ (calc.in = <<"i", "n", "d", "e", "x">>) =>
                calc.out = [base |-> <<"i", "n", "d", "e", "x">>, idx |-> -1]
    /\ calc.fn = "classifyFile" =>
          /\ calc.out.method = ByPrecedence(calc.in).method
          /\ calc.out.isSSE = ByPrecedence(calc.in).isSSE
          /\ calc.out.seqIdx = ByPrecedence(calc.in).seqIdx

\* post_sse_003: the three rules apply one after the other.
C13_Witness ==
    /\ calc.fn = "classifyFile"
    /\ calc.in = <<"p", "o", "s", "t", "_", "s", "s", "e", "_", "0", "0", "3">>
    /\ calc.out = [method |-> <<"P", "O", "S", "T">>, isSSE |-> TRUE, seqIdx |-> 3]

----------------------------------------------------------------------------
(* The parser: file contents.  A content is a sequence of characters. *)

frontmatterSeparator == <<"-", "-", "-">>
sectionSeparator == <<"=", "=", "=">>

IsSpace(c) == c \in {" ", "\n", "\t", "\r"}

RECURSIVE TrimLeft(_)
TrimLeft(s) == IF s # <<>> /\ IsSpace(s[1]) THEN TrimLeft(Tail(s)) ELSE s

RECURSIVE TrimRight(_)
TrimRight(s) ==
    IF s # <<>> /\ IsSpace(s[Len(s)])
    THEN TrimRight(SubSeq(s, 1, Len(s) - 1)) ELSE s

\* strings.TrimSpace
TrimSpace(s) == TrimRight(TrimLeft(s))

HasPrefix(s, prefix) ==
    Len(s) >= Len(prefix) /\ SubSeq(s, 1, Len(prefix)) = prefix

\* s[from:], with from counted from 0.
From(s, from) == SubSeq(s, from + 1, Len(s))

\* strings.Index(s, sub): 0-based, -1 when sub does not occur.
Index(s, sub) ==
    LET at == {i \in 0..(Len(s) - Len(sub)) : SubSeq(s, i + 1, i + Len(sub)) = sub}
    IN IF at = {} THEN -1 ELSE CHOOSE i \in at : \A j \in at : i <= j

TrimPrefix(s, prefix) == IF HasPrefix(s, prefix) THEN From(s, Len(prefix)) ELSE s

\* strings.Split(s, sep), for a separator that is not empty.
RECURSIVE Split(_, _)
Split(s, sep) ==
    IF Index(s, sep) < 0 THEN <<s>>
    ELSE <<SubSeq(s, 1, Index(s, sep))>> \o Split(From(s, Index(s, sep) + Len(sep)), sep)

\* The option blocks of the model and what yaml.Unmarshal makes of them;
\* the third one is not a mapping.
YAMLLoop == <<"\n", "l", "o", "o", "p", ":", " ", "t", "r", "u", "e">>
YAMLStatus == <<"\n", "s", "t", "a", "t", "u", "s", ":", " ", "2", "0", "4">>
YAMLBad == <<"\n", "l", "o", "o", "p">>

yamlUnmarshal(text) ==
    CASE text = YAMLLoop -> [err |-> FALSE, fm |-> Frontmatter(TRUE, 0, 0, 0, 0)]
      [] text = YAMLStatus -> [err |-> FALSE, fm |-> Frontmatter(FALSE, 0, 0, 204, 0)]
      [] text = <<>> -> [err |-> FALSE, fm |-> Frontmatter(FALSE, 0, 0, 0, 0)]
      [] OTHER -> [err |-> TRUE, fm |-> Frontmatter(FALSE, 0, 0, 0, 0)]

\* ParseFile on the content read from the file.
ParseFile(content) ==
    LET trimmed == TrimSpace(content)
        rest == From(trimmed, Len(frontmatterSeparator))
        close == <<"\n">> \o frontmatterSeparator
        endIdx == Index(rest, close)
        found == HasPrefix(trimmed, frontmatterSeparator) /\ endIdx >= 0
        y == IF found THEN yamlUnmarshal(SubSeq(rest, 1, endIdx))
             ELSE yamlUnmarshal(<<>>)
        body == IF found
                THEN TrimPrefix(From(rest, endIdx + Len(close)), <<"\n">>)
                ELSE content
        sections == Split(body, <<"\n">> \o sectionSeparator \o <<"\n">>)
    IN IF y.err THEN [err |-> TRUE, Frontmatter |-> y.fm, Sections |-> <<>>]
       ELSE [err |-> FALSE, Frontmatter |-> y.fm,
             Sections |-> [i \in 1..Len(sections) |-> TrimSpace(sections[i])]]

(* File contents: an optional options block, then up to MaxLines lines. *)

MaxLines == 5

BodyLines == {<<"A">>, <<" ", "B", " ">>, <<>>, <<"=", "=", "=">>}

Headers ==
    {<<>>,
     frontmatterSeparator \o YAMLLoop \o <<"\n">> \o frontmatterSeparator \o <<"\n">>,
     frontmatterSeparator \o YAMLBad \o <<"\n">> \o frontmatterSeparator \o <<"\n">>}

RECURSIVE LinesOf(_)
LinesOf(n) ==
    IF n = 0 THEN {<<>>}
    ELSE LinesOf(n - 1) \cup {Append(l, x) : l \in LinesOf(n - 1), x \in BodyLines}

\* The lines joined by line breaks.
RECURSIVE Join(_)
Join(lines) ==
    IF lines = <<>> THEN <<>>
    ELSE IF Len(lines) = 1 THEN lines[1]
    ELSE lines[1] \o <<"\n">> \o Join(Tail(lines))

CallParseFile ==
    Call("ParseFile", ParseFile(calc.in.header \o Join(calc.in.lines)))

ParseInit ==
    /\ IdleServer
    /\ calc \in {[fn |-> "input", in |-> [header |-> h, lines |-> l], out |-> <<>>] :
                    h \in Headers, l \in LinesOf(MaxLines)}

ParseNext == CallParseFile

SpecParse == ParseInit /\ [][ParseNext]_vars

----------------------------------------------------------------------------
(* Properties of the parser *)

\* The positions of the lines that consist of the section delimiter only.
DelimiterLines(lines) == {i \in 1..Len(lines) : lines[i] = sectionSeparator}

\* The lines between two delimiter lines (or an end of the body), joined
\* and trimmed: the n-th segment of the body, n from 1.
Segment(lines, n) ==
    LET D == DelimiterLines(lines)
        before(i) == Cardinality({d \in D : d < i})
        mine == {i \in 1..Len(lines) : i \notin D /\ before(i) = n - 1}
        first == CHOOSE i \in mine : \A j \in mine : i <= j
        last_ == CHOOSE i \in mine : \A j \in mine : i >= j
    IN IF mine = {} THEN <<>>
       ELSE TrimSpace(Join(SubSeq(lines, first, last_)))

\* C14 as claimed: a body with k lines made of the section delimiter alone
\* parses into k+1 sections in order, each trimmed, the empty ones kept
\* (adjacent delimiter lines and a delimiter on the first or last line each
\* give an empty section); without a delimiter line there is one section;
\* there is never no section.
C14_SectionsPerDelimiterLine ==
    (calc.fn = "ParseFile" /\ ~calc.out.err) =>
        LET k == Cardinality(DelimiterLines(calc.in.lines))
        IN /\ Len(calc.out.Sections) = k + 1
           /\ \A n \in 1..(k + 1) :
                 calc.out.Sections[n] = Segment(calc.in.lines, n)

----------------------------------------------------------------------------
(* Pages: a route /a/ whose html list has sections that are empty, that
   fail to render, and that carry a status option, next to a live list that
   loops; a route /b/; a directory that is edited between requests, and
   that may hold a file that does not parse. *)

MaxPageReqs == 3

Page(loop, status, secs) == ParsedFile(Frontmatter(loop, 0, 0, status, 0), secs)

PageLists ==
    {<<Page(FALSE, 0, <<"A", "", BadTemplate>>)>>,
     <<Page(FALSE, 201, <<"A", "">>)>>,
     <<Page(TRUE, 404, <<"A">>), Page(FALSE, 0, <<"">>)>>,
     <<Page(FALSE, 0, <<"A">>)>>}

Ticker == <<ParsedFile(Frontmatter(TRUE, 100, 0, 0, 0), <<"X", "Y">>)>>

PageDisks ==
    {[broken |-> b,
      routes |-> PathA :> RouteFiles("" :> l, "GET" :> Ticker)
                 @@ PathB :> RouteFiles("" :> <<Page(FALSE, 0, <<"P", "Q">>)>>,
                                        EmptyMap)] :
        b \in BOOLEAN, l \in PageLists}

PageRequest ==
    \E p \in {PathA, PathB}, m \in {"GET", "POST"}, h \in {"", "true"} :
        /\ nreq < MaxPageReqs
        /\ ServePlayground("c1", p, m, h, SigAB, "swift-fox-1", "calm-owl-2", {1})

PageEdit == \E d \in PageDisks : EditPlayground(d)

PageInit == InitWith(PageDisks)

PageNext == PageRequest \/ PageEdit

SpecPages == PageInit /\ [][PageNext]_vars

----------------------------------------------------------------------------
(* Properties of the html path *)

\* The section that the last request, served as html, selected.
Selected == At(collectSections(last.files), last.idx)

\* C15: on the html path the status is that of the selected section alone:
\* a nonempty body that renders is sent with the section's status option,
\* or 200 when the option is 0; an empty body is sent without content with
\* the status option, or 204 when the option is 0.
C15_StatusOfSection ==
    last.kind = "html" =>
        LET option == Selected.frontmatter.Status
        IN /\ Selected.content = "" =>
                 /\ last.status = (IF option # 0 THEN option ELSE 204)
                 /\ last.out.body = ""
           /\ Selected.content \notin {"", BadTemplate} =>
                 /\ last.status = (IF option # 0 THEN option ELSE 200)
                 /\ last.out.body = Selected.content

\* An empty section with the status option 201, served to a live-update
\* request that fell back to html.
C15_Witness ==
    /\ last.kind = "html" /\ last.marker
    /\ Selected.content = ""
    /\ Selected.frontmatter.Status = 201
    /\ last.status = 201

\* A request was served in this step.
RequestStep == nreq' = nreq + 1

\* C16: an html request for route U with method M reads and writes the
\* cursor of the key (U, html, M) alone: every other cursor of the session
\* keeps its value, the live cursor of U and M and the cursors of other
\* routes and methods among them.  A live request writes no cursor and does
\* not read an html cursor: it starts from the live cursor of its key.
C16_CursorsIsolated ==
    [][RequestStep =>
          LET c == last'.client
              before == cookie[c].seq_pos
              after == cookie'[c].seq_pos
              html == <<last'.urlPath, "html", last'.method>>
              live == <<last'.urlPath, "sse", last'.method>>
          IN /\ \A d \in Clients \ {c} : cookie'[d] = cookie[d]
             /\ last'.kind = "html" =>
                   /\ DOMAIN before \subseteq DOMAIN after
                   /\ DOMAIN after \subseteq (DOMAIN before) \cup {html}
                   /\ \A x \in (DOMAIN before) \ {html} : after[x] = before[x]
                   /\ last'.idx = Min(MapGet(before, html), last'.n - 1)
             /\ last'.kind = "sse" =>
                   /\ after = before
                   /\ last'.idx = Min(MapGet(before, live), last'.n - 1)
             /\ last'.kind \notin {"html", "sse"} => after = before]_vars

\* A live request that starts at section 0 while the html cursor of its
\* route and method is 1, next to the cursor of another method.
C16_Witness ==
    /\ last.kind = "sse" /\ last.idx = 0
    /\ MapGet(cookie[last.client].seq_pos, <<last.urlPath, "html", last.method>>) = 1
    /\ MapGet(cookie[last.client].seq_pos, <<last.urlPath, "html", "POST">>) = 1
    /\ DOMAIN cookie[last.client].seq_pos
          = {<<last.urlPath, "html", last.method>>, <<last.urlPath, "html", "POST">>}

----------------------------------------------------------------------------
(* Lists that shrink: the html list and the live list of /a/ are edited
   between the requests of one session, while its live connection goes
   once through its sections. *)

MaxShrinkReqs == 3

ShrinkLists ==
    {<<Page(FALSE, 0, <<"A", "B", "C">>)>>,
     <<Page(FALSE, 0, <<"A", "B">>)>>,
     <<Page(FALSE, 0, <<"">>)>>}

ShrinkTickers ==
    {<<ParsedFile(Frontmatter(TRUE, 100, 1, 0, 0), secs)>> :
        secs \in {<<"X", "Y", "Z">>, <<"X">>}}

ShrinkDisks ==
    {Disk(PathA :> RouteFiles("" :> l, "" :> t)) :
        l \in ShrinkLists, t \in ShrinkTickers}

ShrinkRequest ==
    \E h \in {"", "true"} :
        /\ nreq < MaxShrinkReqs
        /\ ServePlayground("c1", PathA, "GET", h, EmptyMap,
                           "swift-fox-1", "calm-owl-2", {1})

ShrinkEdit == \E d \in ShrinkDisks : EditPlayground(d)

ShrinkInit == InitWith(ShrinkDisks)

ShrinkNext ==
    \/ ShrinkRequest
    \/ ShrinkEdit
    \/ TimerFire(1)
    \/ HandleTick(1, FALSE)

SpecShrink == ShrinkInit /\ [][ShrinkNext]_vars

InRange(i, n) == n >= 1 /\ i >= 0 /\ i <= n - 1

\* C17: the index that selects a section, on the html path and on a live
\* connection, lies in 0..length-1, where length >= 1 is the number of
\* sections of the selected list; on the html path it is the stored cursor,
\* or length-1 when the stored cursor is beyond it (as after an edit that
\* shortened the list); such a cursor gives no error.
C17_IndexInRange ==
    /\ [](last.kind \in {"html", "sse"} =>
            /\ last.n = Len(collectSections(last.files))
            /\ InRange(last.idx, last.n)
            /\ last.status # 500)
    /\ [](\A id \in ConnIds :
            conn[id].state # "none" =>
                LET n == Len(conn[id].allSections)
                IN /\ InRange(conn[id].pos, n)
                   /\ InRange(conn[id].loopPos, n)
                   /\ conn[id].cause # "error"
                   /\ \A i \in 1..Len(conn[id].patches) :
                         InRange(conn[id].patches[i].pos, n))
    /\ [][(RequestStep /\ last'.kind = "html") =>
            LET stored == MapGet(cookie[last'.client].seq_pos,
                                 <<last'.urlPath, "html", last'.method>>)
            IN last'.idx = IF stored > last'.n - 1 THEN last'.n - 1 ELSE stored]_vars

\* After an edit, a request served from a list of one section while the
\* stored cursor is 2.
C17_Witness ==
    /\ last.kind = "html" /\ edits > 0
    /\ last.n = 1 /\ last.idx = 0
    /\ MapGet(cookie[last.client].seq_pos, <<last.urlPath, "html", last.method>>) = 2

\* C18: while a file of the directory cannot be read or parsed, every
\* request, to whatever path, is answered 500 and served from no route;
\* it leaves the hit counters, the session and its cursors, and the live
\* connections as they were, and publishes nothing.
C18_ScanErrorAborts ==
    [][(RequestStep /\ disk.broken) =>
          /\ last'.kind = "error"
          /\ last'.status = 500
          /\ last'.files = <<>>
          /\ last'.pubs = <<>>
          /\ counters' = counters
          /\ cookie' = cookie
          /\ conn' = conn
          /\ served' = served]_vars

\* A request answered 500 after an edit broke a file, in a session that has
\* been served before and on a route that was served before.
C18_Witness ==
    /\ last.kind = "error" /\ last.status = 500
    /\ edits > 0 /\ disk.broken
    /\ last.urlPath \in DOMAIN counters.urlHits
    /\ cookie[last.client].session_id # ""

----------------------------------------------------------------------------
(* Flat file names: a relative path is a sequence of characters. *)

pathSeparator == <<"_", "_">>

\* strings.ReplaceAll(s, old, new), for an old that is not empty: the
\* occurrences of old are taken from left to right, without overlap.
RECURSIVE ReplaceAll(_, _, _)
ReplaceAll(s, old, new) ==
    IF Index(s, old) < 0 THEN s
    ELSE SubSeq(s, 1, Index(s, old)) \o new
         \o ReplaceAll(From(s, Index(s, old) + Len(old)), old, new)

\* filepath.ToSlash, where the separator of the system is the slash.
ToSlash(path) == path

EncodePath(relPath) == ReplaceAll(ToSlash(relPath), <<"/">>, pathSeparator)

DecodePath(gistFilename) == ReplaceAll(gistFilename, pathSeparator, <<"/">>)

(* Relative paths of up to MaxPathLen characters: names separated by
   single slashes. *)

MaxPathLen == 5

PathChars == {"a", "_", "/"}

RECURSIVE CharSeqs(_)
CharSeqs(n) ==
    IF n = 0 THEN {<<>>}
    ELSE CharSeqs(n - 1) \cup {Append(q, c) : q \in CharSeqs(n - 1), c \in PathChars}

RelPaths ==
    {q \in CharSeqs(MaxPathLen) :
        /\ q # <<>>
        /\ q[1] # "/" /\ q[Len(q)] # "/"
        /\ \A i \in 1..(Len(q) - 1) : ~(q[i] = "/" /\ q[i + 1] = "/")}

CallEncodePath == Call("EncodePath", EncodePath(calc.in))

\* The name that EncodePath gave is decoded.
CallDecodePath ==
    /\ calc.fn = "EncodePath"
    /\ calc' = [fn |-> "DecodePath", in |-> calc.in, out |-> DecodePath(calc.out)]
    /\ UNCHANGED <<disk, cookie, counters, conn, last, served, nreq, edits, hits>>

GistInit ==
    /\ IdleServer
    /\ calc \in {[fn |-> "input", in |-> q, out |-> <<>>] : q \in RelPaths}

GistNext == CallEncodePath \/ CallDecodePath

SpecGist == GistInit /\ [][GistNext]_vars

\* C19 as claimed: for every relative path p, EncodePath(p) holds no slash
\* and DecodePath(EncodePath(p)) is p.
C19_RoundTrip ==
    /\ calc.fn = "EncodePath" => \A i \in 1..Len(calc.out) : calc.out[i] # "/"
    /\ calc.fn = "DecodePath" => calc.out = calc.in

----------------------------------------------------------------------------
(* A loop without count: one connection on a list of one or two files whose
   first section loops with count 0, the publishes of its session, and its
   cancellation. *)

TickerLists ==
    {<<ParsedFile(Frontmatter(TRUE, 100, 0, 0, 0), <<"A", "B", "C">>)>>,
     <<ParsedFile(Frontmatter(TRUE, 100, 0, 0, 0), <<"A">>), StaticB(<<"", "C">>)>>}

TickerDisks ==
    {Disk(PathA :> RouteFiles(EmptyMap, "" :> l)
          @@ PathB :> RouteFiles("" :> OneFile("page"), EmptyMap)) :
        l \in TickerLists}

TickerInit == InitWith(TickerDisks)

TickerNext ==
    \/ LiveRequest
    \/ PublishRequest
    \/ Cancel(1)
    \/ TimerFire(1)
    \/ HandleDone(1)
    \/ \E wfail \in BOOLEAN : HandleTick(1, wfail)
    \/ HandleLoopMsg(1, FALSE)

SpecTicker == TickerInit /\ [][TickerNext]_vars

\* A step of connection id that takes a tick of its ticker.
Ticks(id) ==
    /\ conn[id].state = "loop"
    /\ conn[id].timer /\ ~conn'[id].timer
    /\ conn'[id].natsCh = conn[id].natsCh
    /\ conn'[id].cause # "cancel"

\* C20: in the loop with count 0, a tick that is taken moves the position
\* to (position + 1) mod length over the whole list, adds 1 to the loop
\* iteration, and renders the section at the new position with the hit
\* counters of that moment (an empty section gives no patch); unless it is
\* cancelled or an emission fails, the connection stays in the loop.
C20_UncountedTick ==
    [][\A id \in ConnIds :
          LET k == conn[id]
              k2 == conn'[id]
              n == Len(k.allSections)
              next == (k.loopPos + 1) % n
          IN /\ (Ticks(id) /\ k.count = 0) =>
                   /\ k2.loopPos = next
                   /\ k2.loopIteration = k.loopIteration + 1
                   /\ k2.td.GlobalHits = counters.globalHits
                   /\ k2.td.URLHits = MapGet(counters.urlHits, k.urlPath)
                   /\ k2.td.LoopIteration = k2.loopIteration
                   /\ k2.cause # "error" =>
                         /\ k2.state = "loop"
                         /\ k2.messageCount = k.messageCount + 1
                         /\ IF At(k.allSections, next).content = ""
                            THEN k2.patches = k.patches
                            ELSE k2.patches =
                                    Append(k.patches,
                                           [pos |-> next,
                                            out |-> [body |-> At(k.allSections, next).content,
                                                     td |-> k2.td],
                                            late |-> k.cancelled])
             /\ (k.state = "loop" /\ k.count = 0 /\ k2.state # "loop") =>
                   (k2.state = "closed" /\ k2.cause \in {"cancel", "error"})]_vars

\* A loop over two files that is back at its first section after a full
\* round, with the global hits of a request made meanwhile.
C20_Witness ==
    \E id \in ConnIds :
        /\ conn[id].state = "loop" /\ conn[id].count = 0
        /\ ~conn[id].cancelled
        /\ Len(conn[id].allSections) = 3
        /\ conn[id].allSections[3].fileIndex = 1
        /\ conn[id].loopIteration = 3 /\ conn[id].loopPos = 0
        /\ Positions(conn[id]) = <<0, 2, 0>>
        /\ conn[id].td.GlobalHits = 2

----------------------------------------------------------------------------
(* Counted loops over several file groups: one connection, which is not
   cancelled, on a list whose first file loops with a count, and the
   publishes of its session. *)

\* A file that loops with interval 100 and count c.
CountedFile(c, secs) == ParsedFile(Frontmatter(TRUE, 100, c, 0, 0), secs)

\* A file with loop true and no interval: it does not loop.
NoInterval(secs) == ParsedFile(Frontmatter(TRUE, 0, 0, 0, 0), secs)

\* Lists whose every file loops with a count.
AllCountedLists ==
    {<<CountedFile(2, <<"A", "B">>)>>,
     <<CountedFile(1, <<"A">>), CountedFile(2, <<"B", "C">>)>>,
     <<CountedFile(1, <<"A">>), CountedFile(1, <<"", "C">>)>>}

\* A counted file followed by a file that loops without count.
ForeverLists ==
    {<<CountedFile(1, <<"A">>), CountedFile(0, <<"B", "C">>)>>}

\* A counted file followed by a file that does not loop, and a third file.
OneShotLists ==
    {<<CountedFile(1, <<"A">>), NoInterval(<<"B", "C">>), StaticB(<<"D">>)>>,
     <<CountedFile(1, <<"A">>), StaticB(<<"B", "">>), CountedFile(1, <<"D">>)>>}

GroupLists == AllCountedLists \cup ForeverLists \cup OneShotLists

GroupDisks ==
    {Disk(PathA :> RouteFiles(EmptyMap, "" :> l)
          @@ PathB :> RouteFiles("" :> OneFile("page"), EmptyMap)) :
        l \in GroupLists}

GroupInit == InitWith(GroupDisks)

GroupNext ==
    \/ LiveRequest
    \/ PublishRequest
    \/ TimerFire(1)
    \/ HandleTick(1, FALSE)
    \/ HandleLoopMsg(1, FALSE)

SpecGroups == GroupInit /\ [][GroupNext]_vars

\* C21: in the loop, the step that takes a bridge message leaves the
\* position, the loop iteration, groupStart, groupLen, groupTicks, count
\* and the ticker as they were; it merges the payload into the signals,
\* renders the section at the position (an empty section gives no patch)
\* and adds 1 to the message counter.
C21_MessageFrame ==
    [][\A id \in ConnIds :
          LET k == conn[id]
              k2 == conn'[id]
          IN (k.state = "loop" /\ Receives(id)) =>
                /\ k2.loopPos = k.loopPos
                /\ k2.loopIteration = k.loopIteration
                /\ k2.groupStart = k.groupStart
                /\ k2.groupLen = k.groupLen
                /\ k2.groupTicks = k.groupTicks
                /\ k2.count = k.count
                /\ k2.timer = k.timer
                /\ k2.state = "loop" /\ k2.interval = k.interval
                /\ k2.messageCount = k.messageCount + 1
                /\ k2.td.Signals = mergeNATSSignals(Head(k.natsCh).data, k.td.Signals)
                /\ RendersMerged(id)]_vars

\* A message taken in the middle of the second round of a counted group of
\* two sections, and the group still ends after its four emissions.
C21_Witness ==
    \E id \in ConnIds :
        /\ conn[id].handled = 1
        /\ conn[id].state = "closed" /\ conn[id].cause = "exhausted"
        /\ Len(conn[id].allSections) = 2
        /\ Positions(conn[id]) = <<0, 1, 0, 0, 1>>

\* The files of the live list of connection k.
FilesOf(k) == disk.routes[k.urlPath].SSEFiles[""]

\* Every file of the list loops with a positive interval and a count.
AllCounted(files) ==
    \A i \in 1..Len(files) :
        /\ files[i].Frontmatter.Loop
        /\ files[i].Frontmatter.Interval > 0
        /\ files[i].Frontmatter.Count > 0

\* File after file, count times the positions of the file's sections in
\* order; offset is the position of the file's first section.
RECURSIVE FilesRun(_, _, _)
FilesRun(files, i, offset) ==
    IF i > Len(files) THEN <<>>
    ELSE LET L == Len(files[i].Sections)
             c == files[i].Frontmatter.Count
         IN [j \in 1..(c * L) |-> offset + ((j - 1) % L)]
            \o FilesRun(files, i + 1, offset + L)

\* The positions of a run whose sections are not empty: the others give no
\* patch.
Patched(k, run) ==
    LET nonEmpty(p) == At(k.allSections, p).content # ""
    IN SelectSeq(run, nonEmpty)

----------------------------------------------------------------------------
(* A counted loop ends by itself: one connection that is never cancelled
   on a list whose every file is counted, and the publishes of its
   session. *)

\* Lists of at most four emissions.
CountedFairLists ==
    {<<CountedFile(c, <<"A">>)>> : c \in 1..2}
    \cup {<<CountedFile(1, <<"A", "B">>)>>,
          <<CountedFile(2, <<"A">>), CountedFile(1, <<"B">>)>>,
          <<CountedFile(1, <<"A">>), CountedFile(1, <<"B", "">>)>>}

CountedFairDisks ==
    {Disk(PathA :> RouteFiles(EmptyMap, "" :> l)
          @@ PathB :> RouteFiles("" :> OneFile("page"), EmptyMap)) :
        l \in CountedFairLists}

CountedFairInit == InitWith(CountedFairDisks)

CountedFairNext ==
    \/ LiveRequest
    \/ PublishRequest
    \/ TimerFire(1)
    \/ HandleTick(1, FALSE)
    \/ HandleLoopMsg(1, FALSE)

\* The ticker of an open loop fires again and again, and a tick that waits
\* on ticker.C is taken by the select in the end.
SpecCountedFair ==
    /\ CountedFairInit /\ [][CountedFairNext]_vars
    /\ WF_vars(TimerFire(1))
    /\ WF_vars(HandleTick(1, FALSE))

\* C23: a connection in the loop on a list whose every file loops with a
\* positive interval and a count closes in the end without being
\* cancelled; the step that closes it is the tick that follows the last
\* count*groupLen-th emission of the last group, and emits nothing.
C23_CountedLoopCloses ==
    /\ (conn[1].state = "loop" /\ AllCounted(FilesOf(conn[1])))
          ~> (conn[1].state = "closed" /\ ~conn[1].cancelled)
    /\ [][\A id \in ConnIds :
            LET k == conn[id]
                k2 == conn'[id]
            IN (k.state = "loop" /\ k2.state = "closed") =>
                  /\ Ticks(id)
                  /\ k2.cause = "exhausted"
                  /\ k.groupTicks = k.count * k.groupLen
                  /\ k.groupStart + k.groupLen = Len(k.allSections)
                  /\ k2.patches = k.patches
                  /\ k2.messageCount = k.messageCount
                  /\ k2.loopIteration = k.loopIteration]_vars

\* Two groups closed after three emissions and a message.
C23_Witness ==
    \E id \in ConnIds :
        /\ conn[id].state = "closed" /\ conn[id].cause = "exhausted"
        /\ ~conn[id].cancelled
        /\ conn[id].handled = 1
        /\ conn[id].groupStart = 1
        /\ Positions(conn[id]) = <<0, 0, 0, 1>>

----------------------------------------------------------------------------
(* The groups that follow a counted group *)

\* The file group (0-based file index) of the section at position p.
GroupOf(k, p) == At(k.allSections, p).fileIndex

\* C24 as claimed: once a counted group is used up and the next group,
\* which loops with a positive interval, is adopted, the position of the
\* loop and every patch emitted from then on are in the adopted group or
\* in a later one, whatever the adopted count is.
C24_NeverBackToEarlierGroup ==
    \A id \in ConnIds :
        LET k == conn[id]
        IN k.state = "loop" =>
              /\ k.loopPos >= k.groupStart
              /\ \A i \in 1..Len(k.patches) : \A j \in i..Len(k.patches) :
                    GroupOf(k, k.patches[i].pos) <= GroupOf(k, k.patches[j].pos)

\* The connection closed after the single pass over a group that does not
\* loop.
OneShotDone(k) == k.state = "closed" /\ k.cause = "oneshot"

\* The positions of the group of k: groupStart .. groupStart+groupLen-1.
GroupPositions(k) == [i \in 1..k.groupLen |-> k.groupStart + i - 1]

\* The last n entries of s.
LastN(s, n) == SubSeq(s, Len(s) - n + 1, Len(s))

\* C25 as claimed: the tick that finds a counted group used up before a
\* group that does not loop emits every section of that group once, in
\* order, and closes.
C25_EverySectionOnce ==
    \A id \in ConnIds :
        LET k == conn[id]
        IN OneShotDone(k) =>
              /\ Len(k.patches) >= k.groupLen
              /\ LastN(Positions(k), k.groupLen) = GroupPositions(k)

\* C25, amended: on the tick that finds a counted group used up before a
\* group that does not loop (loop false, or interval <= 0), the engine
\* goes once through the sections of that group in order, adds 1 to the
\* message counter and to the loop iteration for each section, emits each
\* section that is not empty with the counters of its turn (an empty
\* section gives no patch), and closes; no section of a later group is
\* ever emitted.
C25_NonEmptySectionsOnce ==
    /\ [][\A id \in ConnIds :
            LET k == conn[id]
                k2 == conn'[id]
                nextStart == k.groupStart + k.groupLen
                next == At(k.allSections, nextStart)
            IN (Ticks(id) /\ k.count > 0
                /\ k.groupTicks >= k.count * k.groupLen
                /\ nextStart < Len(k.allSections)
                /\ (~next.frontmatter.Loop \/ next.frontmatter.Interval <= 0)
                /\ k2.cause # "error") =>
                  LET L == k2.groupLen
                      new == SubSeq(k2.patches, Len(k.patches) + 1, Len(k2.patches))
                  IN /\ OneShotDone(k2)
                     /\ k2.groupStart = nextStart
                     /\ L = fileGroupLen(k.allSections, nextStart)
                     /\ k2.messageCount = k.messageCount + L
                     /\ k2.loopIteration = k.loopIteration + L
                     /\ IsPrefix(k.patches, k2.patches)
                     /\ [i \in 1..Len(new) |-> new[i].pos]
                          = Patched(k, GroupPositions(k2))
                     /\ \A i \in 1..Len(new) :
                           LET turn == new[i].pos - nextStart + 1
                           IN /\ new[i].out.body = At(k.allSections, new[i].pos).content
                              /\ new[i].out.td.SSEMessageCount = k.messageCount + turn
                              /\ new[i].out.td.LoopIteration = k.loopIteration + turn]_vars
    /\ [](\A id \in ConnIds :
            OneShotDone(conn[id]) =>
                \A i \in 1..Len(conn[id].patches) :
                    conn[id].patches[i].pos
                        < conn[id].groupStart + conn[id].groupLen)
    /\ [][\A id \in ConnIds :
            OneShotDone(conn[id]) => conn'[id] = conn[id]]_vars

\* A, then B and an empty section without loop, then D: B alone is
\* emitted on the tick, the counters count both sections of the group, and
\* D is never emitted.
C25_Witness ==
    \E id \in ConnIds :
        /\ OneShotDone(conn[id])
        /\ Len(conn[id].allSections) = 4
        /\ At(conn[id].allSections, 2).content = ""
        /\ Positions(conn[id]) = <<0, 1>>
        /\ conn[id].loopIteration = 2
        /\ conn[id].messageCount = 3

----------------------------------------------------------------------------
(* The drain and the idle listening: one connection on a list whose first
   section does not loop, the publishes of its session, and its
   cancellation. *)

\* A file without loop whose delay option is d (0: not set).
DelayFile(d, secs) == ParsedFile(Frontmatter(FALSE, 0, 0, 0, d), secs)

DrainOnlyLists ==
    {<<DelayFile(0, <<"A", "B", "C">>)>>,
     <<DelayFile(0, <<"A">>)>>,
     <<DelayFile(0, <<"", "B", "">>)>>,
     <<NoInterval(<<"A", "B">>)>>,
     <<DelayFile(200, <<"A", "B">>), DelayFile(300, <<"C", "D">>)>>,
     <<DelayFile(0, <<"A">>), DelayFile(300, <<"B">>), CountedFile(1, <<"C">>)>>}

DrainOnlyDisks ==
    {Disk(PathA :> RouteFiles(EmptyMap, "" :> l)
          @@ PathB :> RouteFiles("" :> OneFile("page"), EmptyMap)) :
        l \in DrainOnlyLists}

DrainInit == InitWith(DrainOnlyDisks)

DrainNext ==
    \/ LiveRequest
    \/ PublishRequest
    \/ Cancel(1)
    \/ TimerFire(1)
    \/ HandleDone(1)
    \/ HandleDelay(1, FALSE)
    \/ HandleIdleMsg(1, FALSE)

SpecDrain == DrainInit /\ [][DrainNext]_vars

\* The positions 0 .. n-1.
UpTo(n) == [i \in 1..n |-> i - 1]

\* A step of connection id that takes the timer of its drain.
Delays(id) ==
    /\ conn[id].state = "drain"
    /\ conn[id].timer /\ ~conn'[id].timer
    /\ conn'[id].cause # "cancel"

\* The patches of k that were emitted before its cancellation fired.
NoLatePatch(k) == \A i \in 1..Len(k.patches) : ~k.patches[i].late

\* C26 as claimed: a connection that does not loop has emitted section 0
\* (if it is not empty) and then every section up to the one its drain has
\* reached, each once and in order, is idle only after the last one, and
\* emits nothing once it is cancelled.
C26_DrainEverySection ==
    \A id \in ConnIds :
        LET k == conn[id]
            first == IF At(k.allSections, 0).content = "" THEN <<>> ELSE <<0>>
        IN (k.state \in {"drain", "idle"} /\ k.handled = 0) =>
              /\ Positions(k) = first \o Tail(UpTo(k.i))
              /\ k.state = "idle" <=> k.i = Len(k.allSections)
              /\ NoLatePatch(k)

\* C26, amended: a connection that does not loop goes through the
\* sections 1 .. length-1 in order, one per timer taken, after section 0
\* at the start; each section that is not empty is emitted once (an empty
\* one gives no patch); it is idle only after the last one.  The step that
\* takes the cancellation closes the connection and emits nothing, the
\* remaining sections unsent; a timer that waits when the cancellation
\* fires may be taken first.
C26_DrainInOrder ==
    /\ [](\A id \in ConnIds :
            LET k == conn[id]
            IN (k.state \in {"drain", "idle"} /\ k.handled = 0) =>
                  /\ k.i \in 1..Len(k.allSections)
                  /\ Positions(k) = Patched(k, UpTo(k.i))
                  /\ k.messageCount = k.i
                  /\ k.state = "idle" <=> k.i = Len(k.allSections))
    /\ [][\A id \in ConnIds :
            LET k == conn[id]
                k2 == conn'[id]
            IN /\ Delays(id) =>
                    /\ k2.state \in {"drain", "idle"}
                    /\ k2.i = k.i + 1
                    /\ k2.patches
                         = IF At(k.allSections, k.i).content = "" THEN k.patches
                           ELSE Append(k.patches,
                                       [pos |-> k.i,
                                        out |-> [body |-> At(k.allSections, k.i).content,
                                                 td |-> k2.td],
                                        late |-> k.cancelled])
               /\ (k.state = "drain" /\ k2.patches # k.patches) => Delays(id)
               /\ (k.state = "drain" /\ k2.state = "closed") =>
                    /\ k.cancelled /\ k2.cause = "cancel"
                    /\ k2.patches = k.patches
                    /\ k2.i = k.i /\ k.i < Len(k.allSections)]_vars

\* A drain of three sections cancelled during its second wait: the third
\* section is never sent.
C26_Witness ==
    \E id \in ConnIds :
        /\ conn[id].state = "closed" /\ conn[id].cause = "cancel"
        /\ Len(conn[id].allSections) = 3
        /\ conn[id].i = 2
        /\ Positions(conn[id]) = <<0, 1>>
        /\ NoLatePatch(conn[id])

\* The delay option of a section, or the default when it is not set.
DelayOption(section) ==
    IF section.frontmatter.Delay <= 0 THEN DefaultDelay
    ELSE section.frontmatter.Delay

\* C27 as claimed: in the drain, the wait before the emission of the
\* section at index i is the delay option of the file of that section, or
\* 5000 ms when the option is not set.
C27_DelayOfCurrentSection ==
    \A id \in ConnIds :
        conn[id].state = "drain" =>
            conn[id].delay = DelayOption(At(conn[id].allSections, conn[id].i))

\* C28: after the drain no timer is armed and none can fire; the select
\* takes only a bridge message or the cancellation; a message renders the
\* last section with the merged signals (no patch if it is empty); the
\* connection leaves the idle state only to be closed, and its patches
\* change only on a message.
C28_IdleListen ==
    /\ [](\A id \in {1} :
            conn[id].state = "idle" =>
                /\ ~conn[id].timer /\ conn[id].interval = 0
                /\ conn[id].i = Len(conn[id].allSections)
                /\ ~ENABLED TimerFire(id)
                /\ ~ENABLED HandleDelay(id, FALSE)
                /\ ~ENABLED HandleTick(id, FALSE)
                /\ ENABLED HandleIdleMsg(id, FALSE) <=> conn[id].natsCh # <<>>
                /\ ENABLED HandleDone(id) <=> conn[id].cancelled)
    /\ [][\A id \in ConnIds :
            LET k == conn[id]
                k2 == conn'[id]
                n == Len(k.allSections)
            IN k.state = "idle" =>
                  /\ k2.state \in {"idle", "closed"}
                  /\ k2.i = k.i /\ k2.allSections = k.allSections
                  /\ k2.state = "closed" => k2.cause \in {"cancel", "error"}
                  /\ k2.cause = "cancel" => k2.patches = k.patches
                  /\ IF Receives(id)
                     THEN /\ k2.handled = k.handled + 1
                          /\ k2.td.Signals
                               = mergeNATSSignals(Head(k.natsCh).data, k.td.Signals)
                          /\ k2.cause # "error" =>
                               /\ k2.messageCount = k.messageCount + 1
                               /\ k2.patches
                                    = IF At(k.allSections, n - 1).content = ""
                                      THEN k.patches
                                      ELSE Append(k.patches,
                                             [pos |-> n - 1,
                                              out |-> [body |-> At(k.allSections, n - 1).content,
                                                       td |-> k2.td],
                                              late |-> k.cancelled])
                     ELSE /\ k2.patches = k.patches
                          /\ k2.td = k.td
                          /\ k2.messageCount = k.messageCount]_vars

\* An idle connection on three sections that has rendered its last
\* section for two messages and was then closed by the cancellation.
C28_Witness ==
    \E id \in ConnIds :
        /\ conn[id].state = "closed" /\ conn[id].cause = "cancel"
        /\ conn[id].handled = 2
        /\ Positions(conn[id]) = <<0, 1, 2, 2, 2>>

----------------------------------------------------------------------------
(* Render failures on the live path: two clients, each with one connection
   on the same list, which holds a section that fails to render, always
   or once the signal "c" has been merged; the first client publishes. *)

MaxFailReqs == 3

FailLists ==
    {<<DelayFile(0, <<BadTemplate, "B">>)>>,
     <<CountedFile(2, <<"A", BadTemplate>>)>>,
     <<CountedFile(1, <<"A">>), StaticB(<<"B", BadTemplate, "C">>)>>,
     <<DelayFile(0, <<"A", BadTemplate, "C">>)>>,
     <<CountedFile(2, <<FailOnSignal, "B">>)>>,
     <<DelayFile(0, <<"A", FailOnSignal>>)>>}

FailDisks ==
    {Disk(PathA :> RouteFiles(EmptyMap, "" :> l)
          @@ PathB :> RouteFiles("" :> OneFile("page"), EmptyMap)) :
        l \in FailLists}

FailInit == InitWith(FailDisks)

\* A live request of the first client, and one of the second.
FailLiveRequest ==
    /\ nreq < MaxFailReqs
    /\ \/ ServePlayground("c1", PathA, "GET", "true", SigAB,
                          "swift-fox-1", "calm-owl-2", {1})
       \/ ServePlayground("c2", PathA, "GET", "true", SigAB,
                          "bold-elk-3", "warm-bee-4", {2})

FailPublishRequest ==
    /\ nreq < MaxFailReqs
    /\ ServePlayground("c1", PathB, "POST", "true", SigBC,
                       "swift-fox-1", "calm-owl-2", {1})

FailNext ==
    \/ FailLiveRequest
    \/ FailPublishRequest
    \/ \E id \in ConnIds : TimerFire(id)
    \/ \E id \in ConnIds : HandleTick(id, FALSE)
    \/ \E id \in ConnIds : HandleLoopMsg(id, FALSE)
    \/ \E id \in ConnIds : HandleDelay(id, FALSE)
    \/ \E id \in ConnIds : HandleIdleMsg(id, FALSE)

SpecFail == FailInit /\ [][FailNext]_vars

\* The render of a section body with context td fails.
Fails(content, td) ==
    content = BadTemplate \/ (content = FailOnSignal /\ "c" \in DOMAIN td.Signals)

\* The section that an open connection rendered last: the position of its
\* loop, or the section before the next one of its drain.
LastRendered(k) == IF k.state = "loop" THEN k.loopPos ELSE k.i - 1

\* C29: a section whose render fails is never emitted and an open
\* connection has rendered its last section without failure, at the
\* start, on a tick, in the single pass over a group, in the drain and on
\* a message: the failure closes the connection, which holds no
\* subscription and no timer and never changes again; the step of the
\* failure adds no patch for the failed section, leaves the other
\* connections as they were, and the request of the stream gets no error
\* status.
C29_RenderFailureCloses ==
    /\ [](\A id \in ConnIds :
            LET k == conn[id]
            IN /\ \A i \in 1..Len(k.patches) :
                     ~Fails(At(k.allSections, k.patches[i].pos).content,
                            k.patches[i].out.td)
               /\ Open(k) =>
                     ~Fails(At(k.allSections, LastRendered(k)).content, k.td)
               /\ k.cause = "error" =>
                     (k.state = "closed" /\ k.subs = {} /\ ~k.timer))
    /\ [](last.kind = "sse" =>
            last.status \notin {StatusInternalServerError, StatusNotFound})
    /\ [][\A id \in ConnIds :
            LET k == conn[id]
                k2 == conn'[id]
            IN /\ k.cause = "error" => k2 = k
               /\ (k.cause # "error" /\ k2.cause = "error") =>
                     /\ \A j \in ConnIds \ {id} : conn'[j] = conn[j]
                     /\ IsPrefix(k.patches, k2.patches)
                     /\ k.state = "loop" =>
                           \A i \in (Len(k.patches) + 1)..Len(k2.patches) :
                               /\ k.count > 0
                               /\ k2.patches[i].pos >= k.groupStart + k.groupLen
                     /\ k.state \in {"drain", "idle"} => k2.patches = k.patches]_vars

\* The connection of the first client closed by the failure of the render
\* that a bridge message asked for, in the loop, while the connection of
\* the second client goes on.
C29_Witness ==
    /\ conn[1].state = "closed" /\ conn[1].cause = "error"
    /\ conn[1].handled = 1
    /\ Positions(conn[1]) = <<0>>
    /\ conn[2].state = "loop"
    /\ Positions(conn[2]) = <<0, 1, 0>>

----------------------------------------------------------------------------
(* Subscriptions of a live connection: one connection whose request
   carries a tab id, an empty one, a number or none, on a list that ends
   by itself, by a single pass, by a failure or only by cancellation; the
   session publishes with a tab id. *)

MaxSubsReqs == 3

SubsLists ==
    {<<CountedFile(1, <<"A">>)>>,
     <<CountedFile(1, <<"A">>), StaticB(<<"B">>)>>,
     <<CountedFile(1, <<"A", BadTemplate>>)>>,
     <<DelayFile(0, <<"A", "B">>)>>,
     <<DelayFile(0, <<BadTemplate>>)>>}

SubsDisks ==
    {Disk(PathA :> RouteFiles(EmptyMap, "" :> l)
          @@ PathB :> RouteFiles("" :> OneFile("page"), EmptyMap)) :
        l \in SubsLists}

SubsInit == InitWith(SubsDisks)

SubsLiveRequest ==
    \E sig \in {SigAB, SigTab, SigTabEmpty, SigTabNumber} :
        /\ nreq < MaxSubsReqs
        /\ ServePlayground("c1", PathA, "GET", "true", sig,
                           "swift-fox-1", "calm-owl-2", {1})

SubsPublishRequest ==
    /\ nreq < MaxSubsReqs
    /\ ServePlayground("c1", PathB, "POST", "true", SigTab,
                       "swift-fox-1", "calm-owl-2", {1})

SubsNext ==
    \/ SubsLiveRequest
    \/ SubsPublishRequest
    \/ Cancel(1)
    \/ TimerFire(1)
    \/ HandleDone(1)
    \/ HandleTick(1, FALSE)
    \/ HandleLoopMsg(1, FALSE)
    \/ HandleDelay(1, FALSE)
    \/ HandleIdleMsg(1, FALSE)

SpecSubs == SubsInit /\ [][SubsNext]_vars

\* The indices of the entries of log that are e.
Indices(log, e) == {i \in 1..Len(log) : log[i] = e}

\* The subjects a request with these signals in session sid subscribes to.
WantedSubjects(sid, signals) ==
    {SessionSubject(sid)}
    \cup (IF "tab_id" \in DOMAIN signals
             /\ signals["tab_id"] \in JSONStrings \ {"''"}
          THEN {TabSubject(signals["tab_id"])}
          ELSE {})

----------------------------------------------------------------------------
(* The order of the effects of an html request *)

\* The last request was an html request whose publish reached the channel
\* of a connection that listens.
PublishedToListener ==
    /\ last.kind = "html"
    /\ \E id \in ConnIds, i \in 1..Len(last.pubs) :
          /\ last.pubs[i].subject \in conn[id].subs
          /\ conn[id].natsCh # <<>>

\* C31 as claimed: the signals of an html request are published after its
\* response is complete: the status and the body are written before the
\* publish that a listening connection receives.
C31_PublishAfterResponse ==
    PublishedToListener =>
        \A p \in Indices(last.log, "publish"),
           w \in Indices(last.log, "header") \cup Indices(last.log, "body") :
            w < p

----------------------------------------------------------------------------
(* The cursor of the html path when the list changes between requests: one
   client on a route whose list loops or not, of three sections, two or
   one, edited between the requests. *)

MaxCursorReqs == 3

CursorLists ==
    {<<Page(loop, 0, secs)>> :
        loop \in BOOLEAN, secs \in {<<"A", "B", "C">>, <<"A", "B">>, <<"A">>}}

CursorDisks == {Disk(PathA :> RouteFiles("" :> l, EmptyMap)) : l \in CursorLists}

CursorRequest ==
    /\ nreq < MaxCursorReqs
    /\ ServePlayground("c1", PathA, "GET", "", EmptyMap,
                       "swift-fox-1", "calm-owl-2", {})

CursorEdit == \E d \in CursorDisks : EditPlayground(d)

CursorInit == InitWith(CursorDisks)

CursorNext == CursorRequest \/ CursorEdit

SpecCursor == CursorInit /\ [][CursorNext]_vars

\* The step is an html request; from is the position the new cursor is
\* computed from, given the stored cursor and the served position.
CursorAfter(from(_, _)) ==
    (nreq' = nreq + 1 /\ last'.kind = "html") =>
        LET c == last'.client
            key == SeqKey(last'.urlPath, "html", last'.method)
            n == last'.n
            stored == MapGet(cookie[c].seq_pos, key)
            shown == last'.idx
            loop == At(collectSections(last'.files), shown).frontmatter.Loop
            p == from(stored, shown) + 1
        IN /\ shown = IF stored > n - 1 THEN n - 1 ELSE stored
           /\ IF n > 1
              THEN cookie'[c].seq_pos[key]
                     = IF loop THEN p % n ELSE Min(p, n - 1)
              ELSE cookie'[c].seq_pos = cookie[c].seq_pos

FromServed(stored, shown) == shown

FromStored(stored, shown) == stored

\* C32 as claimed: on a list of more than one section the cursor stored by
\* an html request is (served+1) mod length when the served section loops
\* and min(served+1, length-1) otherwise, served being the stored cursor
\* brought back to length-1; on a list of one section it is not written.
C32_AdvanceFromServed == [][CursorAfter(FromServed)]_vars

\* C32, amended: the new cursor is computed from the cursor that was
\* stored, not from the position that was served: (stored+1) mod length
\* when the served section loops, min(stored+1, length-1) otherwise; the
\* two differ on a looping list that became shorter than the stored cursor.
C32_AdvanceFromStored == [][CursorAfter(FromStored)]_vars

\* A looping list of three sections edited to two sections when the cursor
\* was 2: the request serves section 1 and stores (2+1) mod 2 = 1.
C32_Witness ==
    /\ last.kind = "html" /\ last.n = 2 /\ last.idx = 1
    /\ edits = 1
    /\ served["c1"][SeqKey(PathA, "html", "GET")] = <<0, 1, 1>>
    /\ At(collectSections(last.files), 1).frontmatter.Loop
    /\ cookie["c1"].seq_pos[SeqKey(PathA, "html", "GET")] = 1

----------------------------------------------------------------------------
(* Counters.Hit under concurrency: goroutines call Hit for two paths, each
   call advancing one memory operation at a time. *)

MaxHits == 3

HitPaths == {PathA, PathB}

HitUnchanged ==
    UNCHANGED <<disk, cookie, counters, conn, last, served, nreq, edits, calc>>

\* globalHits = atomic.AddInt64(&c.globalHits, 1)
HitEnter(g, urlPath) ==
    /\ hits.call[g].pc = "idle"
    /\ hits.globalHits < MaxHits
    /\ hits' = [hits EXCEPT
                  !.globalHits = @ + 1,
                  !.call[g] = [NoCall EXCEPT !.pc = "RLock",
                                             !.urlPath = urlPath,
                                             !.globalHits = hits.globalHits + 1]]
    /\ HitUnchanged

\* c.mu.RLock()
HitRLock(g) ==
    /\ hits.call[g].pc = "RLock"
    /\ hits.mu.writer = 0
    /\ hits' = [hits EXCEPT !.mu.readers = @ \cup {g},
                            !.call[g].pc = "lookup"]
    /\ HitUnchanged

\* counter, ok := c.urlHits[urlPath]
HitLookup(g) ==
    /\ hits.call[g].pc = "lookup"
    /\ hits' = [hits EXCEPT
                  !.call[g].counter = MapGet(hits.urlHits, hits.call[g].urlPath),
                  !.call[g].ok = hits.call[g].urlPath \in DOMAIN hits.urlHits,
                  !.call[g].pc = "RUnlock"]
    /\ HitUnchanged

\* c.mu.RUnlock(); if !ok { ... }
HitRUnlock(g) ==
    /\ hits.call[g].pc = "RUnlock"
    /\ hits' = [hits EXCEPT !.mu.readers = @ \ {g},
                            !.call[g].pc = IF hits.call[g].ok THEN "add"
                                           ELSE "Lock"]
    /\ HitUnchanged

\* c.mu.Lock()
HitLock(g) ==
    /\ hits.call[g].pc = "Lock"
    /\ hits.mu.writer = 0
    /\ hits.mu.readers = {}
    /\ hits' = [hits EXCEPT !.mu.writer = g, !.call[g].pc = "check"]
    /\ HitUnchanged

\* A write of the map under the lock without the second lookup.
HitCheckBlind(g) ==
    /\ hits.call[g].pc = "check"
    /\ hits' = [hits EXCEPT
                  !.memory = Append(@, 0),
                  !.urlHits = MapPut(@, hits.call[g].urlPath,
                                     Len(hits.memory) + 1),
                  !.call[g].counter = Len(hits.memory) + 1,
                  !.call[g].ok = FALSE,
                  !.call[g].pc = "Unlock"]
    /\ HitUnchanged

\* counter, ok = c.urlHits[urlPath]; if !ok { var n int64; counter = &n;
\* c.urlHits[urlPath] = counter }
HitCheck(g) ==
    /\ hits.call[g].pc = "check"
    /\ hits' = IF hits.call[g].urlPath \in DOMAIN hits.urlHits
               THEN [hits EXCEPT
                       !.call[g].counter = hits.urlHits[hits.call[g].urlPath],
                       !.call[g].ok = TRUE,
                       !.call[g].pc = "Unlock"]
               ELSE [hits EXCEPT
                       !.memory = Append(@, 0),
                       !.urlHits = MapPut(@, hits.call[g].urlPath,
                                          Len(hits.memory) + 1),
                       !.call[g].counter = Len(hits.memory) + 1,
                       !.call[g].ok = FALSE,
                       !.call[g].pc = "Unlock"]
    /\ HitUnchanged

\* c.mu.Unlock()
HitUnlock(g) ==
    /\ hits.call[g].pc = "Unlock"
    /\ hits' = [hits EXCEPT !.mu.writer = 0, !.call[g].pc = "add"]
    /\ HitUnchanged

\* urlHits = atomic.AddInt64(counter, 1); return
HitReturn(g) ==
    /\ hits.call[g].pc = "add"
    /\ LET k == hits.call[g]
           n == hits.memory[k.counter] + 1
       IN hits' = [hits EXCEPT
                     !.memory[k.counter] = n,
                     !.returned = Append(@, [urlPath |-> k.urlPath,
                                             globalHits |-> k.globalHits,
                                             urlHits |-> n]),
                     !.call[g] = NoCall]
    /\ HitUnchanged

HitsInit == InitWith({Disk(EmptyMap)})

HitsNext ==
    \E g \in Goroutines :
        \/ \E urlPath \in HitPaths : HitEnter(g, urlPath)
        \/ HitRLock(g)
        \/ HitLookup(g)
        \/ HitRUnlock(g)
        \/ HitLock(g)
        \/ HitCheck(g)
        \/ HitUnlock(g)
        \/ HitReturn(g)

SpecHits == HitsInit /\ [][HitsNext]_vars

\* The calls of Hit for urlPath that have returned.
ReturnedFor(urlPath) ==
    {i \in 1..Len(hits.returned) : hits.returned[i].urlPath = urlPath}

InProgress == {g \in Goroutines : hits.call[g].pc # "idle"}

\* C33: under every interleaving of Hit calls one counter is made per path
\* (every counter in memory is the one the map holds for one path); after n
\* returned calls for a path its counter reads n and the calls returned the
\* n distinct values 1..n; the global counter reads the number of calls
\* entered, which is the number of returned calls when none is in progress.
C33_NoLostHit ==
    /\ Len(hits.memory) = Cardinality(DOMAIN hits.urlHits)
    /\ \A a \in 1..Len(hits.memory) :
          \E urlPath \in DOMAIN hits.urlHits : hits.urlHits[urlPath] = a
    /\ \A urlPath \in HitPaths :
          LET done == ReturnedFor(urlPath)
              n == Cardinality(done)
          IN /\ n > 0 => /\ urlPath \in DOMAIN hits.urlHits
                         /\ hits.memory[hits.urlHits[urlPath]] = n
             /\ {hits.returned[i].urlHits : i \in done} = 1..n
             /\ \A i, j \in done :
                   hits.returned[i].urlHits = hits.returned[j].urlHits => i = j
    /\ hits.globalHits = Len(hits.returned) + Cardinality(InProgress)
    /\ {hits.returned[i].globalHits : i \in 1..Len(hits.returned)}
          \subseteq 1..hits.globalHits
    /\ \A i, j \in 1..Len(hits.returned) :
          hits.returned[i].globalHits = hits.returned[j].globalHits => i = j

\* Two concurrent first hits of one path: both goroutines missed it under
\* the read lock; one has made the counter and returned 1, the other has
\* found that counter on its second lookup, under the write lock.
C33_Witness ==
    /\ Len(hits.returned) = 1
    /\ hits.returned[1] = [urlPath |-> PathA, globalHits |-> 2, urlHits |-> 1]
    /\ hits.call[1].pc = "Unlock"
    /\ hits.call[1].urlPath = PathA
    /\ hits.call[1].ok
    /\ hits.call[1].globalHits = 1

RECURSIVE SumCounters(_)
SumCounters(paths) ==
    IF paths = {} THEN 0
    ELSE LET urlPath == CHOOSE x \in paths : TRUE
         IN hits.memory[hits.urlHits[urlPath]] + SumCounters(paths \ {urlPath})

\* C39: the global counter is never below the sum of the per-URL counters,
\* and equals it whenever no call of Hit is in progress.
C39_GlobalCoversURLs ==
    /\ hits.globalHits >= SumCounters(DOMAIN hits.urlHits)
    /\ InProgress = {} => hits.globalHits = SumCounters(DOMAIN hits.urlHits)

\* Three calls have returned, on two paths, and none is in progress.
C39_Witness ==
    /\ InProgress = {}
    /\ hits.globalHits = 3
    /\ DOMAIN hits.urlHits = HitPaths
    /\ SumCounters(DOMAIN hits.urlHits) = 3

----------------------------------------------------------------------------
(* Requests that find nothing to serve. *)

\* C34: a request for a path without a route is answered 404 and changes
\* no state: no counter, no session created or saved, nothing published or
\* delivered, no cursor; a request for a known route with no list for its
\* method and kind after fallback is answered 404 as well.
C34_NotFound ==
    [][(nreq' = nreq + 1 /\ ~disk.broken) =>
          LET known == last'.urlPath \in DOMAIN disk.routes
              rf == disk.routes[last'.urlPath]
          IN /\ ~known =>
                   /\ last'.kind = "notfound"
                   /\ last'.status = StatusNotFound
                   /\ counters' = counters
                   /\ cookie' = cookie
                   /\ conn' = conn
                   /\ served' = served
                   /\ last'.pubs = <<>>
                   /\ Indices(last'.log, "save") = {}
             /\ (/\ known
                 /\ ListFor(rf.HTMLFiles, last'.method) = <<>>
                 /\ ~(last'.marker /\ ListFor(rf.SSEFiles, last'.method) # <<>>)) =>
                   /\ last'.kind = "notfound"
                   /\ last'.status = StatusNotFound]_vars

\* A live-update request with signals for a path without a route, made by
\* a session that has a connection listening on the other path.
C34_Witness ==
    /\ last.kind = "notfound"
    /\ last.urlPath = PathZ
    /\ last.marker /\ last.payload = SigTab
    /\ cookie["c1"].session_id # ""
    /\ conn[1].state \notin {"none", "closed"} /\ conn[1].natsCh = <<>>
    /\ counters.globalHits = 1
    /\ nreq = 2

----------------------------------------------------------------------------
(* An html section that fails to render: route /a/ has an html list of
   several sections, one of which does not parse as a template; route /b/
   has a live list, on which a connection of the session listens. *)

MaxCommitReqs == 3

CommitLists ==
    {<<Page(FALSE, 0, <<BadTemplate, "B">>)>>,
     <<Page(FALSE, 0, <<"A", BadTemplate, "C">>)>>,
     <<Page(TRUE, 0, <<BadTemplate, "B">>)>>,
     <<Page(FALSE, 0, <<BadTemplate>>)>>}

CommitDisks ==
    {Disk(PathA :> RouteFiles("" :> l, EmptyMap)
          @@ PathB :> RouteFiles(EmptyMap, "" :> OneFile("sse-any"))) :
        l \in CommitLists}

CommitLiveRequest ==
    /\ nreq < MaxCommitReqs
    /\ ServePlayground("c1", PathB, "GET", "true", SigAB,
                       "swift-fox-1", "calm-owl-2", {1})

CommitRequest ==
    \E h \in {"", "true"}, payload \in {EmptyMap, SigBC, SigTab} :
        /\ nreq < MaxCommitReqs
        /\ ServePlayground("c1", PathA, "POST", h, payload,
                           "swift-fox-1", "calm-owl-2", {1})

CommitInit == InitWith(CommitDisks)

CommitNext == CommitLiveRequest \/ CommitRequest

SpecCommit == CommitInit /\ [][CommitNext]_vars

CommitKey == SeqKey(PathA, "html", "POST")

----------------------------------------------------------------------------
(* How many times a connection handles what one request published. *)

\* C36 as claimed: a connection is handed at most one message, and makes at
\* most one re-render, for each html request made since it was opened.
C36_OnceForEachRequest ==
    \A id \in ConnIds :
        conn[id].state # "none" => Delivered(conn[id]) <= nreq - 1

\* C36, amended: a request puts one message on a connection's channel for
\* each subject it publishes to that the connection is subscribed to: one
\* for the session, and one more when the signals of both carry the same
\* nonempty tab_id; the connection handles the messages one at a time, so
\* it handles the signal set of such a request twice.
C36_OnceForEachSubject ==
    [][\A id \in ConnIds :
          /\ (nreq' = nreq + 1 /\ conn[id].state # "none") =>
                LET published ==
                        IF last'.kind = "html" /\ last'.marker
                           /\ last'.signals # EmptyMap
                        THEN WantedSubjects(last'.sid, last'.signals)
                        ELSE {}
                    new == Len(conn'[id].natsCh) - Len(conn[id].natsCh)
                IN /\ new = Cardinality(published \cap conn[id].subs)
                   /\ new <= 2
                   /\ \A i \in 1..new :
                         conn'[id].natsCh[Len(conn[id].natsCh) + i].src
                            = last'.signals
          /\ Receives(id) =>
                /\ conn'[id].natsCh = Tail(conn[id].natsCh)
                /\ conn'[id].handled = conn[id].handled + 1]_vars

\* One request of the session, with the tab id of the connection: the
\* connection has handled its signal set twice.
C36_Witness ==
    /\ nreq = 2
    /\ last.kind = "html" /\ Len(last.pubs) = 2
    /\ conn[1].handled = 2
    /\ conn[1].natsCh = <<>>
    /\ TabSubject("t1") \in conn[1].subs \/ conn[1].state = "closed"
    /\ conn[1].td.Signals = SigTab

----------------------------------------------------------------------------
(* Who reaches a connection: the first client holds a connection, opened
   with or without a tab id; both clients, each in its own session, make
   live-update requests on the html route, with the connection's tab id,
   with another one, or with none. *)

MaxScopeReqs == 3

SigTabNew == ("a" :> "2" @@ "tab_id" :> "'t1'")
SigTabOther == ("a" :> "9" @@ "tab_id" :> "'t2'")

ScopeLists ==
    {<<DelayFile(0, <<"A", "B">>)>>,
     <<CountedFile(1, <<"A", "B">>), StaticB(<<"C">>)>>}

ScopeDisks ==
    {Disk(PathA :> RouteFiles(EmptyMap, "" :> l)
          @@ PathB :> RouteFiles("" :> OneFile("page"), EmptyMap)) :
        l \in ScopeLists}

ScopeInit == InitWith(ScopeDisks)

ScopeLiveRequest ==
    \E sig \in {SigAB, SigTab} :
        /\ nreq < MaxScopeReqs
        /\ ServePlayground("c1", PathA, "GET", "true", sig,
                           "swift-fox-1", "calm-owl-2", {1})

ScopePublishRequest ==
    \E c \in Clients, payload \in {SigBC, SigTabNew, SigTabOther} :
        /\ nreq < MaxScopeReqs
        /\ ServePlayground(c, PathB, "POST", "true", payload,
                           IF c = "c1" THEN "swift-fox-1" ELSE "bold-elk-3",
                           IF c = "c1" THEN "calm-owl-2" ELSE "warm-bee-4", {1})

ScopeNext ==
    \/ ScopeLiveRequest
    \/ ScopePublishRequest
    \/ TimerFire(1)
    \/ HandleTick(1, FALSE)
    \/ HandleDelay(1, FALSE)
    \/ HandleLoopMsg(1, FALSE)
    \/ HandleIdleMsg(1, FALSE)

SpecScope == ScopeInit /\ [][ScopeNext]_vars

\* The message was published by a request of the session of connection k,
\* or by a request whose signals carry the tab id k subscribed with.
InScope(msg, k) ==
    \/ cookie[msg.from].session_id = k.td.SessionID
    \/ /\ TabIDOf(msg.src) # ""
       /\ TabSubject(TabIDOf(msg.src)) \in k.subs

\* C37: the signal map of a connection changes only when it takes a message
\* from its channel, and every message it takes was published by a request
\* of its own session or by a request whose signals carry the tab id the
\* connection subscribed with; a request of another session whose signals
\* carry another tab id or none leaves the connection as it was: nothing
\* queued, nothing merged, nothing emitted.
C37_DeliveryScoped ==
    [][\A id \in ConnIds :
          LET k == conn[id]
          IN /\ (k.state # "none" /\ conn'[id].td.Signals # k.td.Signals)
                   => Receives(id)
             /\ Receives(id) =>
                   /\ InScope(Head(k.natsCh), k)
                   /\ Head(k.natsCh).subject \in k.subs
             /\ (/\ nreq' = nreq + 1
                 /\ k.state # "none"
                 /\ last'.sid # k.td.SessionID
                 /\ \/ TabIDOf(last'.signals) = ""
                    \/ TabSubject(TabIDOf(last'.signals)) \notin k.subs)
                   => conn'[id] = k]_vars

\* A request of the other session with the connection's tab id has changed
\* the connection's signal a; one of the other session with another tab id
\* has been made as well.
C37_Witness ==
    /\ nreq = 3
    /\ conn[1].handled = 1 /\ conn[1].natsCh = <<>>
    /\ conn[1].td.Signals["a"] = "2"
    /\ cookie["c1"].url_hits = (PathA :> 1)
    /\ cookie["c2"].url_hits = (PathB :> 2)
    /\ last.client = "c2" /\ last.signals = SigTabOther

----------------------------------------------------------------------------
(* Messages of the bridge that arrive during the drain. *)

\* C38: during the drain a connection takes no message: its signal map
\* does not change, its channel only grows at the end, and it emits only
\* the next section when the delay has elapsed; once idle it takes the
\* messages one at a time from the head of its channel, in the order of
\* their arrival, merging each and rendering the last section with it (no
\* patch when that section is empty).
C38_QueuedThroughDrain ==
    [][\A id \in ConnIds :
          LET k == conn[id]
              k2 == conn'[id]
              n == Len(k.allSections)
          IN /\ k.state = "drain" =>
                   /\ ~Receives(id)
                   /\ IsPrefix(k.natsCh, k2.natsCh) \/ k2.state = "closed"
                   /\ k2.handled = k.handled
                   /\ k2.td.Signals = k.td.Signals
                   /\ k2.patches # k.patches =>
                         /\ k.timer /\ ~k2.timer
                         /\ k2.patches = Append(k.patches,
                                                k2.patches[Len(k2.patches)])
                         /\ k2.patches[Len(k2.patches)].pos = k.i
             /\ (Open(k) /\ ~Receives(id) /\ Open(k2)) =>
                   IsPrefix(k.natsCh, k2.natsCh)
             /\ (k.state = "idle" /\ Receives(id)) =>
                   /\ k2.natsCh = Tail(k.natsCh)
                   /\ k2.handled = k.handled + 1
                   /\ k2.td.Signals
                         = mergeNATSSignals(Head(k.natsCh).data, k.td.Signals)
                   /\ (k2.cause # "error" /\ At(k.allSections, n - 1).content # "") =>
                         /\ Len(k2.patches) = Len(k.patches) + 1
                         /\ k2.patches[Len(k2.patches)].pos = n - 1
                         /\ k2.patches[Len(k2.patches)].out.td.Signals
                               = k2.td.Signals]_vars

\* Two requests of the session were made before the second section of the
\* drain was emitted (its render saw three global hits and the signals of
\* the connection's own request); the idle connection then rendered the
\* last section for the first message, and again for the second.
C38_Witness ==
    /\ conn[1].state = "idle" /\ conn[1].handled = 2
    /\ Positions(conn[1]) = <<0, 1, 1, 1>>
    /\ conn[1].patches[2].out.td.GlobalHits = 3
    /\ conn[1].patches[2].out.td.Signals = SigAB
    /\ conn[1].patches[3].out.td.Signals["a"] = "2"
    /\ conn[1].patches[4].out.td.Signals["a"] = "9"
    /\ conn[1].patches[4].out.td.Signals["tab_id"] = "'t2'"

----------------------------------------------------------------------------
(* The counters handed to the renders of one connection. *)

\* The message counter each patch of k was rendered with.
MessageCounts(k) ==
    [i \in 1..Len(k.patches) |-> k.patches[i].out.td.SSEMessageCount]

\* C40 as claimed: from one emission of a connection to the next the
\* message counter handed to the render grows by exactly 1, starting from
\* the initial emission, in the drain and the idle listening as in the loop.
C40_CounterByOne ==
    \A id \in ConnIds :
        \A i \in 1..(Len(conn[id].patches) - 1) :
            MessageCounts(conn[id])[i + 1] = MessageCounts(conn[id])[i] + 1

====
